---------------------------- MODULE Spec2Model ----------------------------
(***************************************************************************)
(* Verification model of douban-showcase.                                  *)
(*                                                                         *)
(* Spec models the sync scheduler (services/sync/scheduler.py) and the     *)
(* POST /sync route (routes/api.py): the state flags of Scheduler and the  *)
(* threads that run sync_all_data (direct callers, the workers spawned by  *)
(* start_async_sync, the periodic worker).  Every block of the code that   *)
(* runs under self._sync_lock is one atomic action; the statements between *)
(* two such blocks are separate actions, so every interleaving the threads *)
(* can produce is explored.                                                *)
(* SpecStatus models the incremental pre-check of one status, SpecDb the   *)
(* interests table (save_interest, GET /interests), SpecCache the          *)
(* dashboard cache of StatisticsService.                                   *)
(* SpecPool models the connection pool of Database, SpecStore the          *)
(* maintenance writes on stored rows, SpecSave one save_interest call on a *)
(* raw remote record, SpecInt validate_int, SpecScan the scan of           *)
(* sync_data_by_type over its statuses and the fetched list, SpecPage      *)
(* get_interests_page under @retry, SpecFetch and FairFetch the pagination *)
(* loop of get_interests.                                                  *)
(* SpecLock models the retries of Database on a locked database, SpecImg   *)
(* one image sync from its trigger to the batch loop, SpecTrend the        *)
(* collection trend through analyzer and formatter, SpecDash get_dashboard *)
(* over the dashboard cache and the analyzer cache, SpecExport             *)
(* export_all_types with its threads, SpecProv the connections of the      *)
(* statistics data provider.                                               *)
(***************************************************************************)
EXTENDS Integers, Sequences, FiniteSets, TLC

VARIABLES
    is_syncing,      \* Scheduler._is_syncing
    last_sync,       \* Scheduler._last_sync: {} is None, {t} a time (days)
    last_full_sync,  \* Scheduler._last_full_sync: {} is None, {t} a time
    now,             \* datetime.now(), in days
    pc,              \* position of every thread that can run sync_all_data
    arg_inc,         \* the caller's `incremental` (worker arg, do_incremental)
    inc,             \* sync_all_data's local `incremental`
    days,            \* local days_since_full_sync: {} when not computed
    idx,             \* sync_types already handed to sync_data_by_type
    modes,           \* the `incremental` values sync_data_by_type was called with
    outcome,         \* how the body of sync_all_data ended in the current run
    hpc,             \* position of every POST /sync request
    hresp,           \* HTTP status answered to every POST /sync request
    \* one status iteration of sync_data_by_type (SpecStatus)
    sd_in,           \* its inputs: arguments, database contents, remote answer
    sd_pc,           \* its position
    sd_page,         \* first_page as returned by get_interests_page
    sd_pre,          \* has_updates, total_count, local_count
    \* the interests table and its users (SpecDb)
    db_rows,         \* the rows of table interests
    sv_pc,           \* position of every thread inside save_interest
    sv_rec,          \* its interest_data
    sv_exists,       \* its local `exists`
    sv_ret,          \* what its last save_interest call returned
    api_resp,        \* the last answer of GET /api/interests
    \* the dashboard cache of StatisticsService (SpecCache)
    dashboard_cache, \* _dashboard_cache: key -> data
    cache_times,     \* _cache_times: key -> time of the last save
    cache_clock,     \* time.time()
    cache_keys,      \* number of distinct keys requested so far
    \* the connection pool of Database (SpecPool)
    connection_pool, \* _connection_pool: the pooled connections, last in first out
    conn_owner,      \* conn_owner[c]: the thread that created connection c
    closed_conns,    \* connections on which close() succeeded
    held,            \* held[t]: the connections thread t has leased, innermost last
    \* one save_interest call on a raw remote record (SpecSave)
    si_data,         \* interest_data as the remote sent it
    si_row,          \* the column values the call stored, or none
    \* one validate_int call (SpecInt)
    vi_in,           \* its arguments
    vi_out,          \* {} before the call, then what it returned or raised
    \* one sync_data_by_type call (SpecScan)
    sc_inc,          \* its argument `incremental`
    sc_pc,           \* its position
    sc_st,           \* the status its loop is at, as a position in statuses
    sc_last,         \* last_time of that status: 0 is ""
    sc_pat,          \* the page of `interests` the inner loop is in
    sc_end,          \* len(interests) as far as the pages read so far tell
    sc_i,            \* the inner loop's i
    sc_loop,         \* the counters and flags of lines 261-269
    sc_ok,           \* overall_success
    sc_saved,        \* the i whose item save_interest stored, this status
    sc_fail,         \* the statuses whose fetch gave up or raised, or a
                     \* record of which was not written
    sc_stale,        \* full pages just read in a row with no item newer
                     \* than last_time
    \* one get_interests_page call (SpecPage)
    gp_pc,           \* its position
    gp_stack,        \* the attempt of every @retry frame, innermost last
    gp_requests,     \* requests.get calls made so far
    gp_last,         \* what the last of them met
    gp_neterr,       \* how many in a row, up to the last, met a network error
    gp_ret,          \* what the call returned
    \* one get_interests call (SpecFetch)
    gi_total,        \* length of the remote list
    gi_json_exc,     \* the exception class resp.json() raises in this build
    gi_pc,           \* its position
    gi_offset,       \* offset
    gi_error_count,  \* error_count
    gi_results,      \* len(results)
    \* one save_interest call and its lease (SpecLock)
    lk_pool,         \* the pooled connections, each valid or not
    lk_pc,           \* its position
    lk_try,          \* the attempt the decorator of _get_connection is at
    lk_attempt,      \* `attempt` of the loop of line 110
    lk_creates,      \* _create_connection calls made by the lease
    lk_writes,       \* UPDATE/INSERT statements issued
    lk_ret,          \* what save_interest returned
    lk_err,          \* the error it ended on
    lk_where,        \* the operation that raised it
    \* one image sync (SpecImg)
    im_trigger,      \* who asked for it
    im_download_covers, \* ImageService.download_covers
    im_found,        \* what get_items_without_local_image returns
    im_max,          \* max_items: 0 is None
    im_pc,           \* its position
    im_force,        \* force_download
    im_items,        \* `items` of _batch_process_items, after the cap
    im_i,            \* items the loop has been through
    im_success,      \* success
    im_failed,       \* failed
    im_fetched,      \* the items whose cover download succeeded
    im_written,      \* the items whose local_path was written
    \* one collection trend request (SpecTrend)
    tr_period,       \* the `period` argument
    tr_data,         \* what provider.get_collection_trend returns
    tr_pc,           \* its position
    tr_raw,          \* what the analyzer returns
    tr_out,          \* what the formatter returns
    \* one dashboard and its two caches (SpecDash)
    ds_db,           \* the statistics the database holds now
    ds_clock,        \* time.time()
    ds_dash,         \* the slot of _dashboard_cache: {} or {entry}
    ds_analyzer,     \* the slot of the analyzer cache: {} or {entry}
    ds_resp,         \* what the last get_dashboard call returned
    \* one export_all_types call (SpecExport)
    ex_rows,         \* the rows of table interests: id -> type, status
    ex_main,         \* position of the calling thread
    ex_started,      \* the tasks whose thread was started
    ex_done,         \* the tasks whose thread has finished
    ex_files,        \* the files written: name and the ids in `interests`
    ex_index,        \* index.json: {} not written, {files} written
    \* one thread using the statistics data provider (SpecProv)
    pv_op,           \* the operation running or last run
    pv_pc,           \* its position
    pv_calls,        \* operations called so far
    pv_pool,         \* connections in the pool
    pv_leased,       \* the operation got a connection
    pv_handed,       \* _return_connection calls of the operation
    pv_lost          \* connections leased and never handed back

syncVars == <<is_syncing, last_sync, last_full_sync, now, pc, arg_inc, inc,
              days, idx, modes, outcome, hpc, hresp>>

sdVars == <<sd_in, sd_pc, sd_page, sd_pre>>

dbVars == <<db_rows, sv_pc, sv_rec, sv_exists, sv_ret, api_resp>>

cacheVars == <<dashboard_cache, cache_times, cache_clock, cache_keys>>

poolVars == <<connection_pool, conn_owner, closed_conns, held>>

\* the state outside the four specifications above
saveVars == <<si_data, si_row>>

intVars == <<vi_in, vi_out>>

scanVars == <<sc_inc, sc_pc, sc_st, sc_last, sc_pat, sc_end, sc_i, sc_loop,
              sc_ok, sc_saved, sc_fail, sc_stale>>

pageVars == <<gp_pc, gp_stack, gp_requests, gp_last, gp_neterr, gp_ret>>

fetchVars == <<gi_total, gi_json_exc, gi_pc, gi_offset, gi_error_count, gi_results>>

apiVars == <<pageVars, fetchVars>>

lockVars == <<lk_pool, lk_pc, lk_try, lk_attempt, lk_creates, lk_writes, lk_ret,
              lk_err, lk_where>>

imgVars == <<im_trigger, im_download_covers, im_found, im_max, im_pc, im_force,
             im_items, im_i, im_success, im_failed, im_fetched, im_written>>

trendVars == <<tr_period, tr_data, tr_pc, tr_raw, tr_out>>

dashVars == <<ds_db, ds_clock, ds_dash, ds_analyzer, ds_resp>>

exportVars == <<ex_rows, ex_main, ex_started, ex_done, ex_files, ex_index>>

provVars == <<pv_op, pv_pc, pv_calls, pv_pool, pv_leased, pv_handed, pv_lost>>

extVars == <<poolVars, saveVars, intVars, scanVars, apiVars, lockVars, imgVars, trendVars, dashVars, exportVars, provVars>>

\* what the actions of one part leave alone
coreVars == <<syncVars, sdVars, dbVars, cacheVars>>

notPoolVars == <<coreVars, saveVars, intVars, scanVars, apiVars, lockVars, imgVars, trendVars, dashVars, exportVars, provVars>>

notSaveVars == <<coreVars, poolVars, intVars, scanVars, apiVars, lockVars, imgVars, trendVars, dashVars, exportVars, provVars>>

notIntVars == <<coreVars, poolVars, saveVars, scanVars, apiVars, lockVars, imgVars, trendVars, dashVars, exportVars, provVars>>

notScanVars == <<coreVars, poolVars, saveVars, intVars, apiVars, lockVars, imgVars, trendVars, dashVars, exportVars, provVars>>

notPageVars == <<coreVars, poolVars, saveVars, intVars, scanVars, fetchVars, lockVars, imgVars, trendVars, dashVars, exportVars, provVars>>

notFetchVars == <<coreVars, poolVars, saveVars, intVars, scanVars, pageVars, lockVars, imgVars, trendVars, dashVars, exportVars, provVars>>

notLockVars == <<coreVars, poolVars, saveVars, intVars, scanVars, apiVars, imgVars, trendVars, dashVars, exportVars, provVars>>

notImgVars == <<coreVars, poolVars, saveVars, intVars, scanVars, apiVars, lockVars, trendVars, dashVars, exportVars, provVars>>

notTrendVars == <<coreVars, poolVars, saveVars, intVars, scanVars, apiVars, lockVars, imgVars, dashVars, exportVars, provVars>>

notDashVars == <<coreVars, poolVars, saveVars, intVars, scanVars, apiVars, lockVars, imgVars, trendVars, exportVars, provVars>>

notExportVars == <<coreVars, poolVars, saveVars, intVars, scanVars, apiVars, lockVars, imgVars, trendVars, dashVars, provVars>>

notProvVars == <<coreVars, poolVars, saveVars, intVars, scanVars, apiVars, lockVars, imgVars, trendVars, dashVars, exportVars>>

nonSyncVars == <<sdVars, dbVars, cacheVars, extVars>>

vars == <<syncVars, nonSyncVars>>

-----------------------------------------------------------------------------
(* Bounds *)

\* the clock stops at MaxNow days
MaxNow == 45
\* the clock advances DayStep days at a time
DayStep == 15

(* Program constants *)

FULL_SYNC_DAYS == 30

\* DOUBAN_SYNC_TYPES default "movie,book"
sync_types == <<"movie", "book">>

-----------------------------------------------------------------------------
(* Threads *)

\* the thread that calls sync_all_data itself: app.py main() runs
\* sync_manager.sync_all for --sync / --sync-incremental
Directs == {"main"}
\* POST /sync requests; a request that starts a sync owns one worker thread
Handlers == {"h1", "h2"}
\* the thread of schedule_periodic_sync
Periodic == "p"

Runners == Directs \cup Handlers \cup {Periodic}

\* where sync_all_data returns to
ReturnTo(r) ==
    IF r \in Directs THEN "done"
    ELSE IF r \in Handlers THEN "w_fin"
    ELSE "p_fin"

\* the per-type loop of sync_all_data (lines 119-123)
InLoop(r) == pc[r] = "sad_loop"

\* between claiming the state inside sync_all_data and its finally block
InRun(r) == pc[r] \in {"sad_age", "sad_esc", "sad_loop", "sad_fin"}

-----------------------------------------------------------------------------
(* Scheduler._set_sync_state under the lock *)

SetSyncState(state, is_full) ==
    /\ is_syncing' = state
    /\ IF state = FALSE
       THEN /\ last_sync' = {now}
            /\ last_full_sync' = IF is_full THEN {now} ELSE last_full_sync
       ELSE UNCHANGED <<last_sync, last_full_sync>>

\* a thread that has left its run: its locals are dead
Leave(r, to) ==
    /\ pc' = [pc EXCEPT ![r] = to]
    /\ arg_inc' = [arg_inc EXCEPT ![r] = TRUE]
    /\ inc' = [inc EXCEPT ![r] = TRUE]
    /\ days' = [days EXCEPT ![r] = {}]
    /\ idx' = [idx EXCEPT ![r] = 0]
    /\ modes' = [modes EXCEPT ![r] = {}]
    /\ outcome' = [outcome EXCEPT ![r] = "none"]

\* sync_all_data returns to its caller
Return(r) ==
    IF r \in Directs
    THEN Leave(r, "done")
    ELSE /\ pc' = [pc EXCEPT ![r] = ReturnTo(r)]
         /\ UNCHANGED <<arg_inc, inc, days, idx, modes, outcome>>

-----------------------------------------------------------------------------
(* sync_all_data *)

\* lines 98-100: the is_syncing property, then the early return
SadCheck(r) ==
    /\ pc[r] = "sad_check"
    /\ IF is_syncing
       THEN Return(r)
       ELSE /\ pc' = [pc EXCEPT ![r] = "sad_set"]
            /\ UNCHANGED <<arg_inc, inc, days, idx, modes, outcome>>
    /\ UNCHANGED <<is_syncing, last_sync, last_full_sync, now, hpc, hresp>>
    /\ UNCHANGED nonSyncVars

\* line 103
SadSet(r) ==
    /\ pc[r] = "sad_set"
    /\ SetSyncState(TRUE, ~inc[r])
    /\ pc' = [pc EXCEPT ![r] = "sad_age"]
    /\ UNCHANGED <<now, arg_inc, inc, days, idx, modes, outcome, hpc, hresp>>
    /\ UNCHANGED nonSyncVars

\* SadAge without line 111: the state is escalated, the local flag is not
SadAge_NoEscalate(r) ==
    /\ pc[r] = "sad_age"
    /\ IF inc[r] /\ last_full_sync # {}
       THEN LET days_since_full_sync ==
                    now - (CHOOSE t \in last_full_sync : TRUE) IN
            /\ days' = [days EXCEPT ![r] = {days_since_full_sync}]
            /\ inc' = inc
            /\ pc' = [pc EXCEPT ![r] =
                        IF days_since_full_sync >= FULL_SYNC_DAYS
                        THEN "sad_esc" ELSE "sad_loop"]
       ELSE /\ pc' = [pc EXCEPT ![r] = "sad_loop"]
            /\ UNCHANGED <<days, inc>>
    /\ UNCHANGED <<is_syncing, last_sync, last_full_sync, now, arg_inc, idx,
                   modes, outcome, hpc, hresp>>
    /\ UNCHANGED nonSyncVars

\* lines 107-111
SadAge(r) ==
    /\ pc[r] = "sad_age"
    /\ IF inc[r] /\ last_full_sync # {}
       THEN LET days_since_full_sync ==
                    now - (CHOOSE t \in last_full_sync : TRUE) IN
            /\ days' = [days EXCEPT ![r] = {days_since_full_sync}]
            /\ IF days_since_full_sync >= FULL_SYNC_DAYS
               THEN /\ inc' = [inc EXCEPT ![r] = FALSE]
                    /\ pc' = [pc EXCEPT ![r] = "sad_esc"]
               ELSE /\ inc' = inc
                    /\ pc' = [pc EXCEPT ![r] = "sad_loop"]
       ELSE /\ pc' = [pc EXCEPT ![r] = "sad_loop"]
            /\ UNCHANGED <<days, inc>>
    /\ UNCHANGED <<is_syncing, last_sync, last_full_sync, now, arg_inc, idx,
                   modes, outcome, hpc, hresp>>
    /\ UNCHANGED nonSyncVars

\* line 112
SadEscalate(r) ==
    /\ pc[r] = "sad_esc"
    /\ SetSyncState(TRUE, TRUE)
    /\ pc' = [pc EXCEPT ![r] = "sad_loop"]
    /\ UNCHANGED <<now, arg_inc, inc, days, idx, modes, outcome, hpc, hresp>>
    /\ UNCHANGED nonSyncVars

\* lines 119-136: one sync_data_by_type call, res its result or "raise";
\* after the last type the image sync (lines 126-133), which changes none of
\* the scheduler's state, and the return of all_success
SadSyncType(r, res) ==
    /\ pc[r] = "sad_loop"
    /\ idx[r] < Len(sync_types)
    /\ idx' = [idx EXCEPT ![r] = idx[r] + 1]
    /\ modes' = [modes EXCEPT ![r] = modes[r] \cup {inc[r]}]
    /\ LET all_success == outcome[r] = "none" /\ res = "ok" IN
       IF res = "raise"
       THEN /\ outcome' = [outcome EXCEPT ![r] = "raised"]
            /\ pc' = [pc EXCEPT ![r] = "sad_fin"]
       ELSE IF idx[r] + 1 = Len(sync_types)
       THEN /\ outcome' = [outcome EXCEPT ![r] =
                            IF all_success THEN "ok" ELSE "failed"]
            /\ pc' = [pc EXCEPT ![r] = "sad_fin"]
       ELSE /\ outcome' = [outcome EXCEPT ![r] =
                            IF all_success THEN "none" ELSE "failed"]
            /\ pc' = pc
    /\ UNCHANGED <<is_syncing, last_sync, last_full_sync, now, arg_inc, inc,
                   days, hpc, hresp>>
    /\ UNCHANGED nonSyncVars

\* SadFinally with the reset at the end of the try body instead of in finally
SadFinally_NotOnRaise(r) ==
    /\ pc[r] = "sad_fin"
    /\ IF outcome[r] = "raised"
       THEN UNCHANGED <<is_syncing, last_sync, last_full_sync>>
       ELSE SetSyncState(FALSE, ~inc[r])
    /\ Return(r)
    /\ UNCHANGED <<now, hpc, hresp>>
    /\ UNCHANGED nonSyncVars

\* lines 140-141: finally
SadFinally(r) ==
    /\ pc[r] = "sad_fin"
    /\ SetSyncState(FALSE, ~inc[r])
    /\ Return(r)
    /\ UNCHANGED <<now, hpc, hresp>>
    /\ UNCHANGED nonSyncVars

\* sync_manager.sync_all line 74 calls sync_all_data(incremental)
DirectCall(d, incremental) ==
    /\ d \in Directs
    /\ pc[d] = "idle"
    /\ pc' = [pc EXCEPT ![d] = "sad_check"]
    /\ arg_inc' = [arg_inc EXCEPT ![d] = incremental]
    /\ inc' = [inc EXCEPT ![d] = incremental]
    /\ UNCHANGED <<is_syncing, last_sync, last_full_sync, now, days, idx,
                   modes, outcome, hpc, hresp>>
    /\ UNCHANGED nonSyncVars

-----------------------------------------------------------------------------
(* POST /sync and start_async_sync *)

\* api.py lines 186-187
ApiSyncCheck(h) ==
    /\ hpc[h] = "idle"
    /\ IF is_syncing
       THEN /\ hresp' = [hresp EXCEPT ![h] = 409]
            /\ hpc' = [hpc EXCEPT ![h] = "done"]
       ELSE /\ hresp' = hresp
            /\ hpc' = [hpc EXCEPT ![h] = "start"]
    /\ UNCHANGED <<is_syncing, last_sync, last_full_sync, now, pc, arg_inc,
                   inc, days, idx, modes, outcome>>
    /\ UNCHANGED nonSyncVars

\* StartAsyncSync without the check of line 340
StartAsyncSync_NoCheck(h, incremental) ==
    /\ hpc[h] = "start"
    /\ hpc' = [hpc EXCEPT ![h] = "done"]
    /\ is_syncing' = TRUE
    /\ pc' = [pc EXCEPT ![h] = "w_set"]
    /\ arg_inc' = [arg_inc EXCEPT ![h] = incremental]
    /\ hresp' = [hresp EXCEPT ![h] = 200]
    /\ UNCHANGED <<last_sync, last_full_sync, now, inc, days, idx, modes,
                   outcome>>
    /\ UNCHANGED nonSyncVars

\* scheduler.py lines 339-354, called from api.py lines 198-207
StartAsyncSync(h, incremental) ==
    /\ hpc[h] = "start"
    /\ hpc' = [hpc EXCEPT ![h] = "done"]
    /\ IF is_syncing
       THEN /\ hresp' = [hresp EXCEPT ![h] = 500]
            /\ UNCHANGED <<is_syncing, pc, arg_inc>>
       ELSE /\ is_syncing' = TRUE
            /\ pc' = [pc EXCEPT ![h] = "w_set"]
            /\ arg_inc' = [arg_inc EXCEPT ![h] = incremental]
            /\ hresp' = [hresp EXCEPT ![h] = 200]
    /\ UNCHANGED <<last_sync, last_full_sync, now, inc, days, idx, modes,
                   outcome>>
    /\ UNCHANGED nonSyncVars

\* _async_sync_worker line 359, then the call of line 362
WorkerSet(h) ==
    /\ h \in Handlers
    /\ pc[h] = "w_set"
    /\ SetSyncState(TRUE, ~arg_inc[h])
    /\ pc' = [pc EXCEPT ![h] = "sad_check"]
    /\ inc' = [inc EXCEPT ![h] = arg_inc[h]]
    /\ UNCHANGED <<now, arg_inc, days, idx, modes, outcome, hpc, hresp>>
    /\ UNCHANGED nonSyncVars

\* _async_sync_worker lines 367-368
WorkerFinally(h) ==
    /\ h \in Handlers
    /\ pc[h] = "w_fin"
    /\ SetSyncState(FALSE, ~arg_inc[h])
    /\ Leave(h, "done")
    /\ UNCHANGED <<now, hpc, hresp>>
    /\ UNCHANGED nonSyncVars

-----------------------------------------------------------------------------
(* _periodic_sync_worker *)

\* lines 397 and 440 (time.sleep), then lines 402-406 and 429-430
PeriodicClaim ==
    /\ pc[Periodic] = "p_sleep"
    /\ IF ~is_syncing
       THEN /\ is_syncing' = TRUE
            /\ pc' = [pc EXCEPT ![Periodic] = "p_age"]
       ELSE /\ UNCHANGED <<is_syncing, pc>>
    /\ UNCHANGED <<last_sync, last_full_sync, now, arg_inc, inc, days, idx,
                   modes, outcome, hpc, hresp>>
    /\ UNCHANGED nonSyncVars

\* lines 410-420
PeriodicAge ==
    /\ pc[Periodic] = "p_age"
    /\ LET days_since_full_sync ==
                IF last_full_sync = {} THEN {}
                ELSE {now - (CHOOSE t \in last_full_sync : TRUE)}
           do_incremental ==
                ~(\E d \in days_since_full_sync : d >= FULL_SYNC_DAYS)
       IN /\ days' = [days EXCEPT ![Periodic] = days_since_full_sync]
          /\ arg_inc' = [arg_inc EXCEPT ![Periodic] = do_incremental]
          /\ inc' = [inc EXCEPT ![Periodic] = do_incremental]
    /\ pc' = [pc EXCEPT ![Periodic] = "sad_check"]
    /\ UNCHANGED <<is_syncing, last_sync, last_full_sync, now, idx, modes,
                   outcome, hpc, hresp>>
    /\ UNCHANGED nonSyncVars

\* lines 422-428
PeriodicFinally ==
    /\ pc[Periodic] = "p_fin"
    /\ is_syncing' = FALSE
    /\ last_sync' = {now}
    /\ last_full_sync' = IF ~arg_inc[Periodic] THEN {now} ELSE last_full_sync
    /\ Leave(Periodic, "p_sleep")
    /\ UNCHANGED <<now, hpc, hresp>>
    /\ UNCHANGED nonSyncVars

\* the wall clock
Tick ==
    /\ now + DayStep <= MaxNow
    /\ now' = now + DayStep
    /\ UNCHANGED <<is_syncing, last_sync, last_full_sync, pc, arg_inc, inc,
                   days, idx, modes, outcome, hpc, hresp>>
    /\ UNCHANGED nonSyncVars

-----------------------------------------------------------------------------

SyncInit ==
    /\ is_syncing = FALSE
    /\ last_sync = {}
    /\ last_full_sync = {}
    /\ now = 0
    /\ pc = [r \in Runners |->
                IF r = Periodic THEN "p_sleep"
                ELSE IF r \in Directs THEN "idle" ELSE "none"]
    /\ arg_inc = [r \in Runners |-> TRUE]
    /\ inc = [r \in Runners |-> TRUE]
    /\ days = [r \in Runners |-> {}]
    /\ idx = [r \in Runners |-> 0]
    /\ modes = [r \in Runners |-> {}]
    /\ outcome = [r \in Runners |-> "none"]
    /\ hpc = [h \in Handlers |-> "idle"]
    /\ hresp = [h \in Handlers |-> 0]

SyncNext ==
    \/ \E r \in Runners : SadCheck(r)
    \/ \E r \in Runners : SadSet(r)
    \/ \E r \in Runners : SadAge(r)
    \/ \E r \in Runners : SadEscalate(r)
    \/ \E r \in Runners : \E res \in {"ok", "fail", "raise"} : SadSyncType(r, res)
    \/ \E r \in Runners : SadFinally(r)
    \/ \E d \in Directs : \E i \in BOOLEAN : DirectCall(d, i)
    \/ \E h \in Handlers : ApiSyncCheck(h)
    \/ \E h \in Handlers : \E i \in BOOLEAN : StartAsyncSync(h, i)
    \/ \E h \in Handlers : WorkerSet(h)
    \/ \E h \in Handlers : WorkerFinally(h)
    \/ PeriodicClaim
    \/ PeriodicAge
    \/ PeriodicFinally
    \/ Tick

-----------------------------------------------------------------------------
(* One status iteration of sync_data_by_type, up to the decision whether    *)
(* the status is fetched in full: scheduler.py lines 230-253 with            *)
(* _pre_check_updates and DoubanAPI.get_interests_page.                      *)
(*                                                                           *)
(* Timestamps are strings compared lexicographically in the code; here they  *)
(* are naturals, 0 standing for the empty string.                            *)

\* Bounds
\* how far the local count is taken from the remote total
MaxDiff == 6
\* items on the first page
MaxPage == 6

\* Program constants
PRE_CHECK_SAMPLE_SIZE == 5

\* remote totals tried
TotalSamples == {0, 1, 50, 100, 101, 150, 200, 210, 250}

\* what the remote answers to the page-1 request
RespKinds == {"page", "net_error", "empty_body", "bad_json", "null_total"}

Abs(x) == IF x < 0 THEN 0 - x ELSE x

\* create_time of item i of a first page of n items whose k-th item is the
\* only recently created one (k = 0: none)
ItemTime(k, i) == IF i = k THEN 3 ELSE 1

RemoteItems(n, k) == [i \in 1..n |-> ItemTime(k, i)]

\* douban_api.py lines 107-132: the page as the caller receives it; total is
\* {} when the JSON body carries "total": null
GetInterestsPage(resp, total, items) ==
    IF resp = "page" THEN [interests |-> items, total |-> {total}]
    ELSE IF resp = "null_total" THEN [interests |-> items, total |-> {}]
    \* RequestException (line 124), empty content (line 118), JSONDecodeError
    \* (line 127): all answered with an empty page, nothing is raised
    ELSE [interests |-> <<>>, total |-> {0}]

\* CountsDiffer with `diff < 3` for `diff <= 3`
CountsDiffer_Strict(total_count, local_count) ==
    /\ total_count # local_count
    /\ LET diff == Abs(total_count - local_count) IN
       ~(diff < 3 \/ (total_count > 100 /\ diff * 100 <= 2 * total_count))

\* scheduler.py lines 178-187: the count difference alone means "has updates".
\* diff / total_count <= 0.02 is diff * 100 <= 2 * total_count on integers.
CountsDiffer(total_count, local_count) ==
    /\ total_count # local_count
    /\ LET diff == Abs(total_count - local_count) IN
       ~(diff <= 3 \/ (total_count > 100 /\ diff * 100 <= 2 * total_count))

\* scheduler.py lines 143-205, after the page-1 request
PreCheckUpdates(type_, latest_timestamp, first_page, local_type_count, local_tv_count, tv_timestamp) ==
    IF latest_timestamp = 0
    THEN [has_updates |-> TRUE, total_count |-> 0, local_count |-> 0]
    ELSE IF first_page.interests = <<>>
    THEN [has_updates |-> FALSE, total_count |-> 0, local_count |-> 0]
    ELSE IF first_page.total = {}
    \* abs(None - local_count) raises TypeError: lines 202-205
    THEN [has_updates |-> TRUE, total_count |-> 0, local_count |-> 0]
    ELSE LET total_count == CHOOSE t \in first_page.total : TRUE
             local_count == IF type_ = "movie"
                            THEN local_type_count + local_tv_count
                            ELSE local_type_count
             latest == IF type_ = "movie" /\ tv_timestamp # 0
                          /\ tv_timestamp > latest_timestamp
                       THEN tv_timestamp ELSE latest_timestamp
             interests == first_page.interests
         IN IF CountsDiffer(total_count, local_count)
            THEN [has_updates |-> TRUE, total_count |-> total_count,
                  local_count |-> local_count]
            ELSE [has_updates |->
                     \E i \in 1..Len(interests) :
                         i <= PRE_CHECK_SAMPLE_SIZE /\ interests[i] > latest,
                  total_count |-> total_count, local_count |-> local_count]

\* lines 235-237
SdDefaults == [has_updates |-> TRUE, total_count |-> 0, local_count |-> 0]

SdNoPage == [interests |-> <<>>, total |-> {}]

SdInit ==
    /\ \E ty \in {"movie", "book"}, i \in BOOLEAN, lt \in 0..2,
          rk \in RespKinds, t \in TotalSamples, n \in 0..MaxPage,
          k \in 0..MaxPage, dl \in (0 - MaxDiff)..MaxDiff, fix \in BOOLEAN,
          ltv \in {0, 1}, tts \in {0, 4} :
        \* a full sync and an answer without a page need no page details
        /\ (~i \/ lt = 0 \/ rk \notin {"page", "null_total"})
              => (t = 0 /\ n = 0 /\ dl = 0 /\ ~fix /\ ltv = 0 /\ tts = 0)
        /\ k <= n
        /\ ty = "book" => (ltv = 0 /\ tts = 0)
        /\ t + dl >= 0
        /\ fix => dl = 0
        /\ sd_in = [type_ |-> ty, incremental |-> i, last_time |-> lt,
                    resp |-> rk, total |-> t, n |-> n, k |-> k,
                    local_count |-> IF fix THEN 100 ELSE t + dl,
                    local_tv |-> ltv, tv_ts |-> tts]
    /\ sd_pc = "begin"
    /\ sd_page = SdNoPage
    /\ sd_pre = SdDefaults

\* lines 235-241 and 145-147
SdBegin ==
    /\ sd_pc = "begin"
    /\ IF sd_in.incremental
       THEN IF sd_in.last_time = 0
            THEN /\ sd_pre' = PreCheckUpdates(sd_in.type_, 0, SdNoPage, 0, 0, 0)
                 /\ sd_pc' = "decide"
            ELSE /\ sd_pre' = sd_pre
                 /\ sd_pc' = "page1"
       ELSE /\ sd_pre' = sd_pre
            /\ sd_pc' = "fetch"
    /\ UNCHANGED <<sd_in, sd_page, syncVars, dbVars, cacheVars, extVars>>

\* line 152
SdFirstPage ==
    /\ sd_pc = "page1"
    /\ sd_page' = GetInterestsPage(sd_in.resp, sd_in.total,
                                   RemoteItems(sd_in.n, sd_in.k))
    /\ sd_pc' = "check"
    /\ UNCHANGED <<sd_in, sd_pre, syncVars, dbVars, cacheVars, extVars>>

\* lines 154-205
SdPreCheck ==
    /\ sd_pc = "check"
    /\ sd_pre' = PreCheckUpdates(sd_in.type_, sd_in.last_time, sd_page,
                                 sd_in.local_count, sd_in.local_tv, sd_in.tv_ts)
    /\ sd_pc' = "decide"
    /\ UNCHANGED <<sd_in, sd_page, syncVars, dbVars, cacheVars, extVars>>

\* lines 244-249
SdDecide ==
    /\ sd_pc = "decide"
    /\ sd_pc' = IF ~sd_pre.has_updates THEN "skipped" ELSE "fetch"
    /\ UNCHANGED <<sd_in, sd_page, sd_pre, syncVars, dbVars, cacheVars, extVars>>

SdNext ==
    \/ SdBegin
    \/ SdFirstPage
    \/ SdPreCheck
    \/ SdDecide

\* no iteration in progress
SdIdle ==
    /\ sd_in = [type_ |-> "book", incremental |-> FALSE, last_time |-> 0,
                resp |-> "page", total |-> 0, n |-> 0, k |-> 0,
                local_count |-> 0, local_tv |-> 0, tv_ts |-> 0]
    /\ sd_pc = "fetch"
    /\ sd_page = SdNoPage
    /\ sd_pre = SdDefaults

-----------------------------------------------------------------------------
(* The interests table: Database.save_interest, Database.get_interests and  *)
(* GET /api/interests.  save_interest runs its SELECT and its INSERT/UPDATE  *)
(* as two execute_query calls, each committing on its own, so two threads    *)
(* can interleave between them.                                              *)

\* threads inside save_interest (sync runs can overlap)
Savers == {"s1", "s2"}

\* interest ids; 0 stands for an empty id
Ids == {1, 2}
Types == {"movie", "book"}
Statuses == {"done"}
Years == {0, 2020}

\* interest_data as handed to save_interest; fields_ok: the required fields
\* of _validate_interest_data are present
Records ==
    [id : Ids, type : Types, status : Statuses, year : Years,
     create_time : {"ok"}, card_subtitle : {"text"}, fields_ok : {TRUE}]
    \cup [id : {0}, type : {"movie"}, status : {"done"}, year : {2020},
          create_time : {"ok"}, card_subtitle : {"text"}, fields_ok : {TRUE}]
    \cup [id : {1}, type : {"movie"}, status : {"done"}, year : {2020},
          create_time : {"ok"}, card_subtitle : {"text"}, fields_ok : {FALSE}]

\* the methods class Database defines
DatabaseMethods ==
    {"_create_connection", "_get_connection_from_pool", "_return_to_pool",
     "_get_connection", "execute_query", "execute_script", "_init_database",
     "_ensure_string", "_validate_interest_data", "get_interest_count",
     "save_interest", "get_interests", "get_interest_by_id",
     "get_latest_timestamps", "get_items_without_local_image",
     "update_interest_local_path", "get_distinct_types",
     "close_all_connections"}

\* database.py lines 283-299: the checks before anything is read or written
ValidInterest(rec) == rec.fields_ok /\ rec.id # 0

RowsWithId(rows, id) == {r \in rows : r.id = id}

NextRowId(rows) ==
    IF rows = {} THEN 1
    ELSE 1 + (CHOOSE m \in {r.rowid : r \in rows} :
                 \A r \in rows : r.rowid <= m)

\* the schema's PRIMARY KEY (id): an INSERT of a present id raises
\* IntegrityError and stores nothing
InsertAllowed(rows, id) == RowsWithId(rows, id) = {}

\* lines 487-497
InsertRow(rows, rec) ==
    rows \cup {[rowid |-> NextRowId(rows), id |-> rec.id, type |-> rec.type,
                status |-> rec.status, year |-> rec.year,
                genres |-> "json", card_subtitle |-> rec.card_subtitle,
                create_time |-> rec.create_time, local_path |-> "NULL"]}

\* UpdateRows with the year column left out of the UPDATE
UpdateRows_KeepsYear(rows, rec) ==
    {IF r.id = rec.id
     THEN [r EXCEPT !.type = rec.type, !.status = rec.status,
                    !.genres = "json", !.card_subtitle = rec.card_subtitle,
                    !.create_time = rec.create_time]
     ELSE r : r \in rows}

\* lines 471-483
UpdateRows(rows, rec) ==
    {IF r.id = rec.id
     THEN [r EXCEPT !.type = rec.type, !.status = rec.status,
                    !.year = rec.year, !.genres = "json",
                    !.card_subtitle = rec.card_subtitle,
                    !.create_time = rec.create_time]
     ELSE r : r \in rows}

NoRecord == [id |-> 0, type |-> "movie", status |-> "mark", year |-> 0,
             create_time |-> "ok", card_subtitle |-> "", fields_ok |-> FALSE]

NoReturn == [kind |-> "none", id |-> 0]

\* lines 281-299 and 463-467: validation, then SELECT id FROM interests
SaveSelect(s, rec) ==
    /\ sv_pc[s] = "idle"
    /\ IF ValidInterest(rec)
       THEN /\ sv_pc' = [sv_pc EXCEPT ![s] = "write"]
            /\ sv_rec' = [sv_rec EXCEPT ![s] = rec]
            /\ sv_exists' = [sv_exists EXCEPT ![s] =
                                RowsWithId(db_rows, rec.id) # {}]
            /\ sv_ret' = [sv_ret EXCEPT ![s] = NoReturn]
       ELSE /\ sv_ret' = [sv_ret EXCEPT ![s] = [kind |-> "failed", id |-> 0]]
            /\ UNCHANGED <<sv_pc, sv_rec, sv_exists>>
    /\ UNCHANGED <<db_rows, api_resp, syncVars, sdVars, cacheVars, extVars>>

\* lines 469-507: UPDATE or INSERT, return interest_id, or None on an error
SaveWrite(s) ==
    /\ sv_pc[s] = "write"
    /\ LET rec == sv_rec[s] IN
       IF sv_exists[s]
       THEN /\ db_rows' = UpdateRows(db_rows, rec)
            /\ sv_ret' = [sv_ret EXCEPT ![s] = [kind |-> "updated", id |-> rec.id]]
       ELSE IF InsertAllowed(db_rows, rec.id)
       THEN /\ db_rows' = InsertRow(db_rows, rec)
            /\ sv_ret' = [sv_ret EXCEPT ![s] = [kind |-> "new", id |-> rec.id]]
       ELSE /\ db_rows' = db_rows
            /\ sv_ret' = [sv_ret EXCEPT ![s] = [kind |-> "failed", id |-> rec.id]]
    /\ sv_pc' = [sv_pc EXCEPT ![s] = "idle"]
    /\ sv_rec' = [sv_rec EXCEPT ![s] = NoRecord]
    /\ sv_exists' = [sv_exists EXCEPT ![s] = FALSE]
    /\ UNCHANGED <<api_resp, syncVars, sdVars, cacheVars, extVars>>

\* get_interests lines 537-550: the WHERE clause; an absent or empty filter
\* (type "" / status "" / year 0) is not applied
Matching(rows, type_, status, year) ==
    {r \in rows :
        /\ (type_ # "" => r.type = type_)
        /\ (status # "" => r.status = status)
        /\ (year # 0 => r.year = year)}

\* r comes before q under ORDER BY year <sort_order>, ties in rowid order
Before(r, q, sort_order) ==
    IF r.year # q.year
    THEN IF sort_order = "asc" THEN r.year < q.year ELSE r.year > q.year
    ELSE r.rowid < q.rowid

RECURSIVE Ordered(_, _)
Ordered(rows, sort_order) ==
    IF rows = {} THEN <<>>
    ELSE LET first == CHOOSE r \in rows :
                        \A q \in rows \ {r} : Before(r, q, sort_order)
         IN <<first>> \o Ordered(rows \ {first}, sort_order)

\* get_interests lines 572-579: ORDER BY, LIMIT, OFFSET
GetInterests(rows, type_, status, year, sort_order, limit, offset) ==
    LET all == Ordered(Matching(rows, type_, status, year), sort_order)
    IN SubSeq(all, offset + 1,
              IF offset + limit < Len(all) THEN offset + limit ELSE Len(all))

\* api.py lines 83-105 with the instances init_api received from create_app
MissingServices == {}

NoAnswer == [code |-> 0, items |-> <<>>, total |-> 0]

\* api.py lines 107-177, sort_by = "year"
ApiInterests(type_, status, year, sort_order, limit, offset) ==
    /\ api_resp' =
          IF MissingServices # {}
          THEN [code |-> 503, items |-> <<>>, total |-> 0]
          ELSE LET items == GetInterests(db_rows, type_, status, year,
                                         sort_order, limit, offset)
               IN IF "count_interests" \in DatabaseMethods
                  THEN [code |-> 200, items |-> items,
                        total |-> Cardinality(Matching(db_rows, type_, status,
                                                       year))]
                  \* line 160 raises AttributeError, caught at line 175
                  ELSE [code |-> 500, items |-> <<>>, total |-> 0]
    /\ UNCHANGED <<db_rows, sv_pc, sv_rec, sv_exists, sv_ret, syncVars, sdVars, cacheVars, extVars>>

DbInit ==
    /\ db_rows = {}
    /\ sv_pc = [s \in Savers |-> "idle"]
    /\ sv_rec = [s \in Savers |-> NoRecord]
    /\ sv_exists = [s \in Savers |-> FALSE]
    /\ sv_ret = [s \in Savers |-> NoReturn]
    /\ api_resp = NoAnswer

DbNext ==
    \/ \E s \in Savers : \E rec \in Records : SaveSelect(s, rec)
    \/ \E s \in Savers : SaveWrite(s)
    \/ \E t \in {"", "movie"}, st \in {"", "done"}, y \in Years,
          so \in {"asc", "desc"}, l \in {1, 50}, o \in {0, 1} :
            ApiInterests(t, st, y, so, l, o)


\* ---- the other statements that write table interests ----

\* records of the runs below: create_time is whatever string the remote sent
StoreRecords ==
    [id : Ids, type : {"movie"}, status : Statuses, year : {2020},
     create_time : {"ok", "bad"}, card_subtitle : {"text"},
     fields_ok : {TRUE}]

\* ids handed to the single-row statements; 3 is stored nowhere
ItemIds == Ids \cup {3}

\* database.py lines 663-691 (image sync, image_service.py line 459)
UpdateLocalPath(rows, item_id, local_path) ==
    {IF r.id = item_id THEN [r EXCEPT !.local_path = local_path] ELSE r :
        r \in rows}

\* data_provider.py lines 679-685
FindInvalidGenres(rows) == {r.id : r \in {q \in rows : q.genres = "invalid"}}

\* data_provider.py lines 687-698
FixInvalidGenres(rows, item_id) ==
    {IF r.id = item_id THEN [r EXCEPT !.genres = "[]"] ELSE r : r \in rows}

\* data_provider.py lines 700-713
FixNullCardSubtitles(rows) ==
    {IF r.card_subtitle = "NULL" THEN [r EXCEPT !.card_subtitle = ""] ELSE r :
        r \in rows}

\* data_provider.py lines 715-723
FindInvalidDates(rows) == {r.id : r \in {q \in rows : q.create_time = "bad"}}

\* FixInvalidDate that removes the row it cannot read
FixInvalidDate_Drops(rows, item_id) ==
    {r \in rows : r.id # item_id}

\* data_provider.py lines 725-736: create_time = CURRENT_TIMESTAMP
FixInvalidDate(rows, item_id) ==
    {IF r.id = item_id THEN [r EXCEPT !.create_time = "now"] ELSE r :
        r \in rows}

RECURSIVE FixEach(_, _, _)
\* the for loops of analyzer.py lines 1040-1042 and 1050-1052
FixEach(rows, ids, what) ==
    IF ids = {} THEN rows
    ELSE LET id == CHOOSE i \in ids : TRUE
             fixed == IF what = "genres" THEN FixInvalidGenres(rows, id)
                      ELSE FixInvalidDate(rows, id)
         IN FixEach(fixed, ids \ {id}, what)

\* update_interest_local_path as image sync calls it, for any item id
UpdateInterestLocalPath(item_id) ==
    /\ db_rows' = UpdateLocalPath(db_rows, item_id, "img")
    /\ UNCHANGED <<sv_pc, sv_rec, sv_exists, sv_ret, api_resp>>
    /\ UNCHANGED <<syncVars, sdVars, cacheVars, extVars>>

\* analyzer.py lines 1022-1066 (POST /data/fix): the three repairs in turn
FixInvalidData ==
    /\ LET g == FixEach(db_rows, FindInvalidGenres(db_rows), "genres")
           c == FixNullCardSubtitles(g)
       IN db_rows' = FixEach(c, FindInvalidDates(c), "dates")
    /\ UNCHANGED <<sv_pc, sv_rec, sv_exists, sv_ret, api_resp>>
    /\ UNCHANGED <<syncVars, sdVars, cacheVars, extVars>>

\* a single repair statement called for any item id
FixOne(item_id, what) ==
    /\ db_rows' = IF what = "genres" THEN FixInvalidGenres(db_rows, item_id)
                  ELSE FixInvalidDate(db_rows, item_id)
    /\ UNCHANGED <<sv_pc, sv_rec, sv_exists, sv_ret, api_resp>>
    /\ UNCHANGED <<syncVars, sdVars, cacheVars, extVars>>

\* sync runs saving whatever the remote lists, image syncs and repairs
StoreNext ==
    \/ \E s \in Savers : \E rec \in StoreRecords : SaveSelect(s, rec)
    \/ \E s \in Savers : SaveWrite(s)
    \/ \E i \in ItemIds : UpdateInterestLocalPath(i)
    \/ FixInvalidData
    \/ \E i \in ItemIds, what \in {"genres", "dates"} : FixOne(i, what)

-----------------------------------------------------------------------------
(* The dashboard cache: StatisticsService._save_to_cache.                    *)
(*                                                                           *)
(* Keys are numbered in the order in which they are first requested; a key   *)
(* that was evicted and is requested again behaves like a new key.           *)

\* Bounds
\* distinct cache keys requested
MaxKeys == 22
\* saves of a key that is already cached
MaxResaves == 2

\* Program constants
\* the literal of `len(self._dashboard_cache) > 20`
CACHE_LIMIT == 20

\* statistics_service.py line 552
OldestKey(times) ==
    CHOOSE k \in DOMAIN times : \A j \in DOMAIN times : times[k] <= times[j]

\* statistics_service.py lines 550-556: does this save evict
CacheFull(cache) == Cardinality(DOMAIN cache) > CACHE_LIMIT

Without(f, k) == [j \in DOMAIN f \ {k} |-> f[j]]

With(f, k, v) == [j \in DOMAIN f \cup {k} |-> IF j = k THEN v ELSE f[j]]

\* statistics_service.py lines 541-560
SaveToCache(key, data) ==
    /\ cache_clock' = cache_clock + 1
    /\ LET evict == CacheFull(dashboard_cache)
           oldest_key == OldestKey(cache_times)
           cache1 == IF evict THEN Without(dashboard_cache, oldest_key)
                     ELSE dashboard_cache
           times1 == IF evict THEN Without(cache_times, oldest_key)
                     ELSE cache_times
       IN /\ dashboard_cache' = With(cache1, key, data)
          /\ cache_times' = With(times1, key, cache_clock')
    /\ UNCHANGED <<syncVars, sdVars, dbVars, extVars>>

\* a key never requested before
SaveNewKey ==
    /\ cache_keys < MaxKeys
    /\ cache_keys' = cache_keys + 1
    /\ SaveToCache(cache_keys + 1, "dashboard")

\* a key that is in the cache
SaveCachedKey(key) ==
    /\ key \in DOMAIN dashboard_cache
    /\ cache_clock - cache_keys < MaxResaves
    /\ cache_keys' = cache_keys
    /\ SaveToCache(key, "dashboard")

CacheInit ==
    /\ dashboard_cache = <<>>
    /\ cache_times = <<>>
    /\ cache_clock = 0
    /\ cache_keys = 0

CacheNext ==
    \/ SaveNewKey
    \/ \E key \in 1..MaxKeys : SaveCachedKey(key)

-----------------------------------------------------------------------------

-----------------------------------------------------------------------------
(* The connection pool of Database (database.py lines 18-120) *)

\* Bounds
\* connections created in one exploration
MaxConns == 6

\* Program constants
MAX_POOL_SIZE == 5

\* threads that use the database: the thread that constructed it and two more
\* (request threads, sync workers)
Leasers == {"main", "t1", "t2"}

\* save_interest leases a connection (line 463) and keeps it while each of
\* its execute_query calls leases another (line 134): two per thread
MaxHeld == 2

\* what sqlite3.connect does in _create_connection
ConnectResults == {"ok", "locked"}

Pooled == {connection_pool[i] : i \in DOMAIN connection_pool}

HeldBy(t) == {held[t][i] : i \in DOMAIN held[t]}

\* conn.execute("SELECT 1") by thread t: a sqlite3 connection (opened with
\* the default check_same_thread) answers only to the thread that created it
Usable(c, t) == conn_owner[c] = t /\ c \notin closed_conns

\* lines 60-65
GetConnectionFromPool ==
    IF connection_pool = <<>> THEN {}
    ELSE {connection_pool[Len(connection_pool)]}

\* lines 94-120 with lines 60-65: the pop under _pool_lock, then the check of
\* the popped connection and, without a usable one, sqlite3.connect (its
\* five attempts end "ok" or with the raised "database is locked").  A
\* popped connection that fails the check is dropped: close() from another
\* thread raises and is swallowed.
GetConnection(t, res) ==
    /\ Len(held[t]) < MaxHeld
    /\ LET popped == GetConnectionFromPool
           rest == IF popped = {} THEN connection_pool
                   ELSE SubSeq(connection_pool, 1, Len(connection_pool) - 1)
           usable == {c \in popped : Usable(c, t)}
       IN /\ connection_pool' = rest
          /\ IF usable # {}
             THEN /\ res = "ok"
                  /\ held' = [held EXCEPT ![t] =
                                 Append(@, CHOOSE c \in usable : TRUE)]
                  /\ UNCHANGED <<conn_owner, closed_conns>>
             ELSE IF res = "ok"
             THEN /\ Len(conn_owner) < MaxConns
                  /\ conn_owner' = Append(conn_owner, t)
                  /\ held' = [held EXCEPT ![t] =
                                 Append(@, Len(conn_owner) + 1)]
                  /\ UNCHANGED closed_conns
             ELSE UNCHANGED <<conn_owner, closed_conns, held>>
    /\ UNCHANGED notPoolVars

\* _return_to_pool with `<=` for `<`
ReturnToPool_OneMore(t) ==
    /\ held[t] # <<>>
    /\ LET conn == held[t][Len(held[t])] IN
       /\ held' = [held EXCEPT ![t] = SubSeq(@, 1, Len(@) - 1)]
       /\ IF Usable(conn, t) /\ Len(connection_pool) <= MAX_POOL_SIZE
          THEN /\ connection_pool' = Append(connection_pool, conn)
               /\ UNCHANGED closed_conns
          ELSE /\ closed_conns' = closed_conns \cup {conn}
               /\ UNCHANGED connection_pool
    /\ UNCHANGED conn_owner
    /\ UNCHANGED notPoolVars

\* lines 67-88, called from the finally blocks (lines 160-161, 506-507): the
\* check of the connection, the append under _pool_lock, or close()
ReturnToPool(t) ==
    /\ held[t] # <<>>
    /\ LET conn == held[t][Len(held[t])] IN
       /\ held' = [held EXCEPT ![t] = SubSeq(@, 1, Len(@) - 1)]
       /\ IF Usable(conn, t) /\ Len(connection_pool) < MAX_POOL_SIZE
          THEN /\ connection_pool' = Append(connection_pool, conn)
               /\ UNCHANGED closed_conns
          ELSE /\ closed_conns' = closed_conns \cup {conn}
               /\ UNCHANGED connection_pool
    /\ UNCHANGED conn_owner
    /\ UNCHANGED notPoolVars

\* Database.__init__ lines 36-44: two connections created and pooled by the
\* constructing thread
PoolInit ==
    /\ connection_pool = <<1, 2>>
    /\ conn_owner = <<"main", "main">>
    /\ closed_conns = {}
    /\ held = [t \in Leasers |-> <<>>]

PoolNext ==
    \/ \E t \in Leasers, res \in ConnectResults : GetConnection(t, res)
    \/ \E t \in Leasers : ReturnToPool(t)

-----------------------------------------------------------------------------
(* save_interest on a raw record: validation and the extraction of type,   *)
(* status and year (database.py lines 233-255 and 281-456)                 *)

\* Bounds
\* segments of card_subtitle
MaxParts == 2

\* subject["type"] as the remote may send it; "" stands for an absent key
RawTypes == {"movie", "tv", "book", "music", "game", "drama", "Movie", ""}

\* interest_data["status"]
RawStatuses == {"mark", "doing", "done", "Done"}

\* years written in the record, around the bounds the code tests
YearSamples == {1499, 1500, 1899, 1900, 1979, 1980, 2100, 2101}

\* subject["year"]: absent, a digit string, an int, or other text
YearFields ==
    {[kind |-> "absent", y |-> 0], [kind |-> "text", y |-> 0],
     [kind |-> "str", y |-> 0], [kind |-> "str", y |-> 1499],
     [kind |-> "str", y |-> 2020], [kind |-> "int", y |-> 3000]}

\* one " / "-separated segment of card_subtitle after strip():
\*   digits4   "2005"            four digits
\*   date      "2005-06-01"      YYYY-MM-DD
\*   prefix4   "2005 remaster"   four digits, then text
\*   embedded  "PC 2005 port"    text around a four-digit word
\*   text      "Sony"            no digit
SubtitleParts ==
    [kind : {"digits4", "date", "prefix4", "embedded"}, y : YearSamples]
    \cup {[kind |-> "text", y |-> 0]}

Subtitles ==
    UNION {[1..n -> SubtitleParts] : n \in 0..MaxParts}

RawRecords ==
    [id : {0, 1}, type : RawTypes, subtype : {"", "movie"},
     status : RawStatuses, year : YearFields, card_subtitle : Subtitles]

\* lines 233-255 and 289-299 (the keys the model leaves out are present)
ValidRaw(data) == data.subtype # "" /\ data.id # 0

\* the first of the segment indexes I, 0 without one
FirstHit(I) == IF I = {} THEN 0 ELSE CHOOSE i \in I : \A j \in I : i <= j

YearAt(parts, i) == IF i = 0 THEN 0 ELSE parts[i].y

\* lines 333-337: the structured field
YearFromField(year_raw) ==
    IF year_raw.kind \in {"str", "int"} THEN year_raw.y ELSE 0

\* lines 345-348
MovieYear(parts) ==
    IF parts # <<>> /\ parts[1].kind = "digits4" THEN parts[1].y ELSE 0

\* lines 350-358
BookHit(p) == p.kind = "digits4" /\ 1500 <= p.y /\ p.y <= 2100

\* lines 360-376: a four-digit segment, or the first four characters of a
\* longer one
MusicHit(p) ==
    p.kind \in {"digits4", "prefix4", "date"} /\ 1900 <= p.y /\ p.y <= 2100

\* lines 390-406 and 409-431
GameHit(p) == p.kind \in {"date", "digits4"} /\ 1980 <= p.y /\ p.y <= 2100

\* lines 433-445: \b(19\d{2}|20\d{2})\b, then the range
GameRegexHit(p) ==
    /\ p.kind \in {"digits4", "date", "prefix4", "embedded"}
    /\ 1900 <= p.y /\ p.y <= 2099
    /\ 1980 <= p.y /\ p.y <= 2100

\* lines 378-450
GameYear(parts) ==
    IF parts = <<>> THEN 0
    ELSE IF GameHit(parts[Len(parts)]) THEN parts[Len(parts)].y
    ELSE IF FirstHit({i \in DOMAIN parts : GameHit(parts[i])}) # 0
    THEN YearAt(parts, FirstHit({i \in DOMAIN parts : GameHit(parts[i])}))
    ELSE YearAt(parts, FirstHit({i \in DOMAIN parts : GameRegexHit(parts[i])}))

\* lines 340-450: the subtitle, by type
YearFromSubtitle(subject_type, parts) ==
    IF subject_type \in {"movie", "tv"} THEN MovieYear(parts)
    ELSE IF subject_type = "book"
    THEN YearAt(parts, FirstHit({i \in DOMAIN parts : BookHit(parts[i])}))
    ELSE IF subject_type = "music"
    THEN YearAt(parts, FirstHit({i \in DOMAIN parts : MusicHit(parts[i])}))
    ELSE IF subject_type = "game" THEN GameYear(parts)
    ELSE 0

\* lines 331-340
ExtractYear(data) ==
    IF YearFromField(data.year) # 0 THEN YearFromField(data.year)
    ELSE YearFromSubtitle(data.type, data.card_subtitle)

\* lines 302 and 325: subject.get("type", "") and the status string, as sent
ExtractRow(data) ==
    [id |-> data.id, type |-> data.type, status |-> data.status,
     year |-> ExtractYear(data)]

NoRow == [id |-> 0, type |-> "", status |-> "", year |-> 0]

\* lines 281-500 for one record: the values of the INSERT / UPDATE
SaveInterestRaw ==
    /\ si_row = {}
    /\ si_row' = IF ValidRaw(si_data) THEN {ExtractRow(si_data)} ELSE {NoRow}
    /\ UNCHANGED si_data
    /\ UNCHANGED notSaveVars

SaveInit ==
    /\ si_data \in RawRecords
    /\ si_row = {}

\* no record under way
SaveIdle ==
    /\ si_data = [id |-> 0, type |-> "", subtype |-> "", status |-> "mark",
                  year |-> [kind |-> "absent", y |-> 0],
                  card_subtitle |-> <<>>]
    /\ si_row = {}

SaveNext == SaveInterestRaw

-----------------------------------------------------------------------------
(* validate_int (utils/validation_utils.py lines 10-53 and 94-137) *)

\* Bounds
\* the integers tried as values run from -MaxInt to MaxInt
MaxInt == 15

IntSamples == (0 - MaxInt)..MaxInt

\* the argument `value`:
\*   int n      an int
\*   str n      the digits of n as a string, possibly signed or padded
\*   float n    the float n + 0.5
\*   text       a string that is no integer literal ("abc", "1.5")
\*   none       None
\*   list       a list
\*   nan, inf   float('nan'), float('inf')
IntValues ==
    [kind : {"int", "str", "float"}, n : IntSamples]
    \cup [kind : {"text", "none", "list", "nan", "inf"}, n : {0}]

\* min_value / max_value: {} is None
IntArgs ==
    [value : IntValues, default : {0, 5}, min_value : {{}, {1}, {-3}},
     max_value : {{}, {10}}]

\* int(value) as validate_type calls it (lines 40-49): the int, or the
\* exception it raises
IntOf(value) ==
    CASE value.kind = "int" -> [exc |-> "", n |-> value.n]
      [] value.kind = "str" -> [exc |-> "", n |-> value.n]
      [] value.kind = "float" ->
            [exc |-> "", n |-> IF value.n >= 0 THEN value.n ELSE value.n + 1]
      [] value.kind = "text" -> [exc |-> "ValueError", n |-> 0]
      [] value.kind = "nan" -> [exc |-> "ValueError", n |-> 0]
      [] value.kind = "inf" -> [exc |-> "OverflowError", n |-> 0]
      [] OTHER -> [exc |-> "TypeError", n |-> 0]

\* lines 10-53 with expected_type = int, default = None, convert = True:
\* [exc, result] with result {} for None
ValidateType(value) ==
    IF value.kind = "int" THEN [exc |-> "", result |-> {value.n}]
    ELSE LET c == IntOf(value) IN
         IF c.exc = "" THEN [exc |-> "", result |-> {c.n}]
         ELSE IF c.exc \in {"TypeError", "ValueError"}
         THEN [exc |-> "", result |-> {}]
         ELSE [exc |-> c.exc, result |-> {}]

\* lines 124-135
Clamp(result, min_value, max_value) ==
    IF \E m \in min_value : result < m THEN CHOOSE m \in min_value : TRUE
    ELSE IF \E m \in max_value : result > m THEN CHOOSE m \in max_value : TRUE
    ELSE result

\* lines 94-137: [exc, result]; a string that int() refused is no digit
\* string either (lines 110-117)
ValidateInt(value, default, min_value, max_value) ==
    LET t == ValidateType(value) IN
    IF t.exc # "" THEN [exc |-> t.exc, result |-> 0]
    ELSE IF t.result = {} THEN [exc |-> "", result |-> default]
    ELSE [exc |-> "",
          result |-> Clamp(CHOOSE r \in t.result : TRUE, min_value, max_value)]

ValidateIntCall ==
    /\ vi_out = {}
    /\ vi_out' = {ValidateInt(vi_in.value, vi_in.default, vi_in.min_value,
                              vi_in.max_value)}
    /\ UNCHANGED vi_in
    /\ UNCHANGED notIntVars

IntInit ==
    /\ vi_in \in IntArgs
    /\ vi_out = {}

\* no call under way
IntIdle ==
    /\ vi_in = [value |-> [kind |-> "none", n |-> 0], default |-> 0,
                min_value |-> {}, max_value |-> {}]
    /\ vi_out = {}

IntNext == ValidateIntCall

-----------------------------------------------------------------------------
\* The scan of sync_data_by_type (scheduler.py 207-327): the loop over the
\* three statuses and, inside it, the loop over the fetched interests.
\* The list get_interests returned is read one item at a time, so the model
\* learns it one page of page_size items at a time: sc_pat is the page the
\* loop is in, sc_end the number of items known so far.

\* pages the model lets one fetched list have
MaxScanPages == 4

\* scheduler.py 268
page_size == 20

\* scheduler.py 24
CONSECUTIVE_OLD_PAGES_THRESHOLD == 3

\* scheduler.py 25
MIN_PAGES_TO_CHECK == 2

\* scheduler.py 226: statuses, by position
ScanStatuses == <<"mark", "doing", "done">>

\* create_time values: of an older item, of the newest stored row, of a
\* newer item
ScanTimes == <<1, 5, 9>>

\* latest_timestamps.get(status, ""): 0 is "", LastTime a stored create_time
LastTime == ScanTimes[2]

LastTimes == {0, LastTime}

\* items of a fetched list: a dict older than, as old as or newer than
\* LastTime; "fail" a newer dict save_interest answers None for; "noid" an
\* older dict without id; "badtime" a dict whose create_time is null;
\* "nodict" an element that is no dict
ItemKinds == {"old", "same", "new", "fail", "noid", "badtime", "nodict"}

\* item.get("create_time", ""), line 295; -1 is None
CreateTime(kind) ==
    CASE kind \in {"old", "noid"} -> ScanTimes[1]
      [] kind = "same" -> LastTime
      [] kind \in {"new", "fail"} -> ScanTimes[3]
      [] OTHER -> -1

\* the pages a list is made of: all items old but the one the name tells
PagePatterns == {"old", "same1", "new1", "new20", "fail1", "noid1", "badtime1", "nodict1"}

\* item j (1..page_size) of a page; after a non-dict comes a newer item
ItemAt(pat, j) ==
    CASE pat = "same1" /\ j = 1 -> "same"
      [] pat = "new1" /\ j = 1 -> "new"
      [] pat = "new20" /\ j = page_size -> "new"
      [] pat = "fail1" /\ j = 1 -> "fail"
      [] pat = "noid1" /\ j = 1 -> "noid"
      [] pat = "badtime1" /\ j = 1 -> "badtime"
      [] pat = "nodict1" /\ j = 1 -> "nodict"
      [] pat = "nodict1" /\ j = 2 -> "new"
      [] OTHER -> "old"

\* a page as the remote hands it over: its items and how many of them there
\* are; a page of fewer than page_size items ends the list, len 0 is no page
ScanPages == [pat : PagePatterns, len : {1, page_size}]

NoPage == [pat |-> "old", len |-> 0]

\* what api.get_interests did (douban_api.py 134-233): returned the list,
\* returned what it had when it gave up after max_errors errors, or raised
FetchResults == {"list", "gave_up", "raise"}

\* lines 261-269: the locals of one status; write_count is new_count +
\* update_count, which differ only in the log line
ScanLocals ==
    [consecutive_old_pages |-> 0, current_page |-> 1,
     current_page_all_old |-> TRUE, skip_count |-> 0, write_count |-> 0]

\* lines 278-288: the page boundary as seen at item i
AtBoundary(incremental, i) == incremental /\ i > 0 /\ i % page_size = 0

PageBoundary(loop) ==
    [loop EXCEPT !.current_page = @ + 1,
                 !.consecutive_old_pages =
                     IF loop.current_page_all_old THEN @ + 1 ELSE 0,
                 !.current_page_all_old = TRUE]

\* line 291
StopEarly(loop) ==
    /\ loop.consecutive_old_pages >= CONSECUTIVE_OLD_PAGES_THRESHOLD
    /\ loop.current_page > MIN_PAGES_TO_CHECK

\* line 303 with `<` for `<=`
IsStale_Strict(incremental, last_time, kind) ==
    incremental /\ last_time # 0 /\ CreateTime(kind) < last_time

\* line 303: incremental and last_time and item_time <= last_time
IsStale(incremental, last_time, kind) ==
    incremental /\ last_time # 0 /\ CreateTime(kind) <= last_time

\* line 303 raises TypeError when create_time is None and the comparison
\* is reached
CompareRaises(incremental, last_time, kind) ==
    incremental /\ last_time # 0 /\ kind = "badtime"

\* the item the loop is at
CurKind == ItemAt(sc_pat, (sc_i % page_size) + 1)

\* the loop moves to the next status (or returns): its locals are dropped
NextStatus ==
    /\ sc_pc' = IF sc_st = Len(ScanStatuses) THEN "done" ELSE "begin"
    /\ sc_st' = sc_st + 1
    /\ sc_last' = 0
    /\ sc_pat' = "old"
    /\ sc_end' = 0
    /\ sc_i' = 0
    /\ sc_loop' = ScanLocals
    /\ sc_saved' = {}
    /\ sc_stale' = 0

\* lines 230-245: the pre-check of one status; has_updates is what
\* _pre_check_updates answered (True without last_time, lines 145-147)
ScanBegin(last_time, has_updates) ==
    /\ sc_pc = "begin"
    /\ last_time = 0 => has_updates
    /\ ~sc_inc => last_time = 0 /\ has_updates
    /\ IF sc_inc /\ ~has_updates
       THEN NextStatus
       ELSE /\ sc_pc' = "fetch"
            /\ sc_last' = last_time
            /\ UNCHANGED <<sc_st, sc_pat, sc_end, sc_i, sc_loop, sc_saved, sc_stale>>
    /\ UNCHANGED <<sc_inc, sc_ok, sc_fail>>
    /\ UNCHANGED notScanVars

\* lines 248-269 and 323-325: the fetch; page is the first page of the list
ScanFetch(res, page) ==
    /\ sc_pc = "fetch"
    /\ res = "raise" => page = NoPage
    /\ IF res = "raise"
       THEN /\ NextStatus
            /\ sc_ok' = FALSE
            /\ sc_fail' = sc_fail \cup {sc_st}
       ELSE /\ sc_fail' = IF res = "gave_up" THEN sc_fail \cup {sc_st} ELSE sc_fail
            /\ IF page.len = 0
               THEN NextStatus
               ELSE /\ sc_pc' = "scan"
                    /\ sc_pat' = page.pat
                    /\ sc_end' = page.len
                    /\ sc_i' = 0
                    /\ sc_loop' = ScanLocals
                    /\ UNCHANGED <<sc_st, sc_last, sc_saved, sc_stale>>
            /\ UNCHANGED sc_ok
    /\ UNCHANGED sc_inc
    /\ UNCHANGED notScanVars

\* the item at hand is the last one known, of a full page
MayGoOn ==
    /\ sc_i + 1 = sc_end
    /\ sc_end % page_size = 0
    /\ sc_end < page_size * MaxScanPages

\* the for statement takes the next item; a list whose last page was full
\* may go on with `page`
Advance(page, loop) ==
    LET more == MayGoOn /\ page.len > 0
        full == (sc_i + 1) % page_size = 0
        stale == \A j \in 1..page_size :
                     /\ ItemAt(sc_pat, j) # "nodict"
                     /\ sc_inc /\ sc_last # 0
                     /\ CreateTime(ItemAt(sc_pat, j)) <= sc_last
    IN  /\ sc_i' = sc_i + 1
        /\ sc_pat' = IF more THEN page.pat ELSE sc_pat
        /\ sc_end' = IF more THEN sc_end + page.len ELSE sc_end
        /\ sc_loop' = loop
        /\ sc_stale' = IF ~full THEN sc_stale ELSE IF stale THEN sc_stale + 1 ELSE 0
        /\ UNCHANGED <<sc_pc, sc_st, sc_last>>

\* lines 272-319 and 323-325: one turn of the loop over interests
ScanItem(page) ==
    /\ sc_pc = "scan"
    /\ sc_i < sc_end
    /\ ~MayGoOn => page = NoPage
    /\ LET kind == CurKind
           loop == IF AtBoundary(sc_inc, sc_i) THEN PageBoundary(sc_loop)
                   ELSE sc_loop
       IN  IF kind = "nodict"
           THEN /\ Advance(page, sc_loop)
                /\ UNCHANGED <<sc_ok, sc_saved, sc_fail>>
           ELSE IF AtBoundary(sc_inc, sc_i) /\ StopEarly(loop)
           THEN /\ NextStatus
                /\ UNCHANGED <<sc_ok, sc_fail>>
           ELSE IF kind = "noid"
           THEN /\ Advance(page, loop)
                /\ UNCHANGED <<sc_ok, sc_saved, sc_fail>>
           ELSE IF CompareRaises(sc_inc, sc_last, kind)
           THEN /\ NextStatus
                /\ sc_ok' = FALSE
                /\ sc_fail' = sc_fail \cup {sc_st}
           ELSE IF IsStale(sc_inc, sc_last, kind)
           THEN /\ Advance(page, [loop EXCEPT !.skip_count = @ + 1])
                /\ UNCHANGED <<sc_ok, sc_saved, sc_fail>>
           ELSE IF kind = "fail"
           THEN /\ Advance(page, [loop EXCEPT !.current_page_all_old = FALSE])
                /\ sc_fail' = sc_fail \cup {sc_st}
                /\ UNCHANGED <<sc_ok, sc_saved>>
           ELSE /\ Advance(page, [loop EXCEPT !.current_page_all_old = FALSE,
                                              !.write_count = @ + 1])
                /\ sc_saved' = sc_saved \cup {sc_i}
                /\ UNCHANGED <<sc_ok, sc_fail>>
    /\ UNCHANGED sc_inc
    /\ UNCHANGED notScanVars

\* line 272: the list is exhausted
ScanEnd ==
    /\ sc_pc = "scan"
    /\ sc_i = sc_end
    /\ NextStatus
    /\ UNCHANGED <<sc_inc, sc_ok, sc_fail>>
    /\ UNCHANGED notScanVars

ScanInit ==
    /\ sc_inc \in BOOLEAN
    /\ sc_pc = "begin"
    /\ sc_st = 1
    /\ sc_last = 0
    /\ sc_pat = "old"
    /\ sc_end = 0
    /\ sc_i = 0
    /\ sc_loop = ScanLocals
    /\ sc_ok = TRUE
    /\ sc_saved = {}
    /\ sc_fail = {}
    /\ sc_stale = 0

\* no sync_data_by_type call under way
ScanIdle ==
    /\ sc_inc = TRUE
    /\ sc_pc = "done"
    /\ sc_st = Len(ScanStatuses) + 1
    /\ sc_last = 0
    /\ sc_pat = "old"
    /\ sc_end = 0
    /\ sc_i = 0
    /\ sc_loop = ScanLocals
    /\ sc_ok = TRUE
    /\ sc_saved = {}
    /\ sc_fail = {}
    /\ sc_stale = 0

ScanNext ==
    \/ \E last_time \in LastTimes, has_updates \in BOOLEAN :
           ScanBegin(last_time, has_updates)
    \/ \E res \in FetchResults, page \in ScanPages \cup {NoPage} :
           ScanFetch(res, page)
    \/ \E page \in ScanPages \cup {NoPage} : ScanItem(page)
    \/ ScanEnd

-----------------------------------------------------------------------------
\* get_interests_page under its @retry decorator (douban_api.py 72-132).
\* Every call of the method, the recursive one of line 113 included, goes
\* through the decorator: gp_stack holds, innermost last, the attempt each
\* decorator frame is at.  request_count is written and never read; it is
\* left out.

\* nested calls the model lets a rate-limited call make
MaxDepth == 3

\* douban_api.py 72
stop_max_attempt_number == 3

\* what requests.get and the lines after it do with one request: a JSON
\* page, an empty body, status 429, another error status (raise_for_status),
\* requests.ConnectionError, requests.Timeout, a body that is no JSON, and
\* a builtin ConnectionError that is no RequestException
PageResponses == {"ok", "empty_body", "429", "http_error", "conn_error", "timeout", "bad_json", "os_error"}

\* the request did not get through
NetworkErrors == {"conn_error", "timeout", "os_error"}

\* lines 124-132: what the method catches itself and answers with
\* {"interests": [], "total": 0}
CaughtInside == {"http_error", "conn_error", "timeout", "bad_json"}

\* line 73, retry_on_exception, on what leaves the method
RetryOnException(resp) == resp = "os_error"

\* the decorator of line 72 on an exception it retries on: the innermost
\* frame with attempts left calls again, the frames above it have re-raised
RECURSIVE Unwind(_)
Unwind(stack) ==
    IF stack = <<>> THEN <<>>
    ELSE IF stack[Len(stack)] < stop_max_attempt_number
    THEN [stack EXCEPT ![Len(stack)] = @ + 1]
    ELSE Unwind(SubSeq(stack, 1, Len(stack) - 1))

\* lines 86-132 once, from requests.get to the next request or the end of
\* the outermost call
GetInterestsPageCall(resp) ==
    /\ gp_pc = "request"
    /\ resp = "429" => Len(gp_stack) < MaxDepth
    /\ gp_requests' = gp_requests + 1
    /\ gp_last' = resp
    /\ gp_neterr' = IF resp \in NetworkErrors THEN gp_neterr + 1 ELSE 0
    /\ IF resp = "429"
       THEN /\ gp_stack' = Append(gp_stack, 1)
            /\ UNCHANGED <<gp_pc, gp_ret>>
       ELSE IF resp = "ok"
       THEN /\ gp_stack' = <<>>
            /\ gp_pc' = "returned"
            /\ gp_ret' = "page"
       ELSE IF resp = "empty_body" \/ resp \in CaughtInside
       THEN /\ gp_stack' = <<>>
            /\ gp_pc' = "returned"
            /\ gp_ret' = "empty"
       ELSE /\ RetryOnException(resp)
            /\ gp_stack' = Unwind(gp_stack)
            /\ gp_pc' = IF Unwind(gp_stack) = <<>> THEN "raised" ELSE "request"
            /\ UNCHANGED gp_ret
    /\ UNCHANGED notPageVars

PageInit ==
    /\ gp_pc = "request"
    /\ gp_stack = <<1>>
    /\ gp_requests = 0
    /\ gp_last = "none"
    /\ gp_neterr = 0
    /\ gp_ret = "none"

\* no get_interests_page call under way
PageIdle ==
    /\ gp_pc = "returned"
    /\ gp_stack = <<>>
    /\ gp_requests = 0
    /\ gp_last = "none"
    /\ gp_neterr = 0
    /\ gp_ret = "none"

PageNext == \E resp \in PageResponses : GetInterestsPageCall(resp)

-----------------------------------------------------------------------------
\* The pagination loop of get_interests (douban_api.py 134-233), which
\* calls requests.get itself, not get_interests_page.  The remote holds a
\* list of gi_total records and answers every request as it likes.

\* records the model lets the remote list have
MaxTotal == 120

\* douban_api.py 162 and 229: "count": 50
fetch_count == 50

\* douban_api.py 148
max_errors == 3

RemoteTotals == {0, 1, fetch_count, fetch_count + 1, MaxTotal}

\* one request's outcome: a page of the list, an empty body, status 429,
\* another error status, a connection error or timeout, a body that is no
\* JSON, JSON that is no object (data.get raises AttributeError)
FetchResponses == {"page", "empty_body", "429", "http_error", "conn_error", "bad_json", "not_object"}

\* data.get("interests", []) for a request with start = offset
PageLen(total, offset) ==
    IF offset >= total THEN 0
    ELSE IF total - offset < fetch_count THEN total - offset
    ELSE fetch_count

\* lines 203-213
OnRequestException ==
    /\ gi_error_count' = gi_error_count + 1
    /\ gi_pc' = IF gi_error_count + 1 >= max_errors THEN "done" ELSE "backoff"
    /\ UNCHANGED <<gi_offset, gi_results>>

\* lines 215-231
OnJSONDecodeError ==
    /\ gi_error_count' = gi_error_count + 1
    /\ IF gi_error_count + 1 >= max_errors
       THEN gi_pc' = "done" /\ UNCHANGED gi_offset
       ELSE gi_pc' = "backoff" /\ gi_offset' = gi_offset + fetch_count
    /\ UNCHANGED gi_results

\* lines 153-231: one request of the loop and what follows it up to the
\* next sleep, the next request or the end of the loop
GetInterestsLoop(resp) ==
    /\ gi_pc = "request"
    /\ CASE resp = "429" ->
              /\ gi_pc' = "limited"
              /\ UNCHANGED <<gi_offset, gi_error_count, gi_results>>
         [] resp = "empty_body" ->
              /\ gi_pc' = "done"
              /\ UNCHANGED <<gi_offset, gi_error_count, gi_results>>
         [] resp = "page" ->
              LET n == PageLen(gi_total, gi_offset) IN
              IF n = 0
              THEN /\ gi_pc' = "done"
                   /\ UNCHANGED <<gi_offset, gi_error_count, gi_results>>
              ELSE /\ gi_results' = gi_results + n
                   /\ gi_error_count' = 0
                   /\ gi_offset' = gi_offset + n
                   /\ UNCHANGED gi_pc
         [] resp \in {"http_error", "conn_error"} -> OnRequestException
         [] resp = "bad_json" ->
              IF gi_json_exc = "requests" THEN OnRequestException
              ELSE OnJSONDecodeError
         [] resp = "not_object" ->
              /\ gi_pc' = "raised"
              /\ UNCHANGED <<gi_offset, gi_error_count, gi_results>>
    /\ UNCHANGED <<gi_total, gi_json_exc>>
    /\ UNCHANGED notFetchVars

\* line 68 (time.sleep(60)) and lines 212, 228 (time.sleep(5)): the sleep
\* ends and the loop requests again
WakeUp ==
    /\ gi_pc \in {"limited", "backoff"}
    /\ gi_pc' = "request"
    /\ UNCHANGED <<gi_total, gi_json_exc, gi_offset, gi_error_count, gi_results>>
    /\ UNCHANGED notFetchVars

\* resp.json() on a body that is no JSON raises requests' JSONDecodeError,
\* a RequestException caught at line 203, or, with requests before 2.27,
\* json's, caught at line 215
JsonExceptions == {"requests", "json"}

FetchInit ==
    /\ gi_total \in RemoteTotals
    /\ gi_json_exc \in JsonExceptions
    /\ gi_pc = "request"
    /\ gi_offset = 0
    /\ gi_error_count = 0
    /\ gi_results = 0

\* no get_interests call under way
FetchIdle ==
    /\ gi_total = 0
    /\ gi_json_exc = "requests"
    /\ gi_pc = "done"
    /\ gi_offset = 0
    /\ gi_error_count = 0
    /\ gi_results = 0

FetchNext ==
    \/ \E resp \in FetchResponses : GetInterestsLoop(resp)
    \/ WakeUp

-----------------------------------------------------------------------------
\* One save_interest call down to its database operations (database.py
\* 278-507) with the lease of line 463 step by step: _get_connection under
\* its @retry decorator (lines 90-120).  The decorator of save_interest
\* (line 278) calls again when an exception leaves the method; the method
\* catches every Exception itself (lines 502-504), so there is no such step.

\* pooled connections the model starts a call with
MaxPooled == 2

\* database.py 90: stop_max_attempt_number of _get_connection
get_connection_attempts == 5

\* database.py 110: range(5)
create_attempts == 5

\* database.py 278: stop_max_attempt_number of save_interest
save_interest_attempts == 5

\* a pooled connection answers SELECT 1 or raises sqlite3.Error (line 100)
PooledStates == {"valid", "invalid"}

LockPools == UNION {[1..n -> PooledStates] : n \in 0..MaxPooled}

\* what sqlite3 does with one operation: it works, it raises
\* OperationalError("database is locked"), it raises another sqlite3.Error
DbResults == {"ok", "locked", "other"}

\* line 93, retry_on_exception
RetryOnLocked(err) == err = "locked"

\* lines 502-507: whatever was raised, the call answers None
SaveFails(err) ==
    /\ lk_pc' = "returned"
    /\ lk_ret' = "None"
    /\ lk_err' = err

\* lines 96-107: one attempt of the decorator starts with the pool
LeaseFromPool ==
    /\ lk_pc = "lease"
    /\ IF lk_pool # <<>> /\ lk_pool[Len(lk_pool)] = "valid"
       THEN lk_pc' = "select"
       ELSE lk_pc' = "create"
    /\ lk_pool' = IF lk_pool = <<>> THEN lk_pool
                  ELSE SubSeq(lk_pool, 1, Len(lk_pool) - 1)
    /\ lk_attempt' = 0
    /\ UNCHANGED <<lk_try, lk_creates, lk_writes, lk_ret, lk_err, lk_where>>
    /\ UNCHANGED notLockVars

\* lines 110-117 and the decorator of lines 90-93: one _create_connection
CreateConnection(res) ==
    /\ lk_pc = "create"
    /\ lk_creates' = lk_creates + 1
    /\ IF res = "ok"
       THEN /\ lk_pc' = "select"
            /\ UNCHANGED <<lk_try, lk_attempt, lk_ret, lk_err, lk_where>>
       ELSE IF res = "locked" /\ lk_attempt < create_attempts - 1
       THEN /\ lk_attempt' = lk_attempt + 1
            /\ UNCHANGED <<lk_pc, lk_try, lk_ret, lk_err, lk_where>>
       ELSE IF RetryOnLocked(res) /\ lk_try < get_connection_attempts
       THEN /\ lk_try' = lk_try + 1
            /\ lk_pc' = "lease"
            /\ UNCHANGED <<lk_attempt, lk_ret, lk_err, lk_where>>
       ELSE /\ SaveFails(res)
            /\ lk_where' = "lease"
            /\ UNCHANGED <<lk_try, lk_attempt>>
    /\ UNCHANGED <<lk_pool, lk_writes>>
    /\ UNCHANGED notLockVars

\* line 466: the SELECT of execute_query (lines 122-161), which re-raises
SelectExisting(res) ==
    /\ lk_pc = "select"
    /\ IF res = "ok"
       THEN /\ lk_pc' = "write"
            /\ UNCHANGED <<lk_ret, lk_err, lk_where>>
       ELSE /\ SaveFails(res)
            /\ lk_where' = "select"
    /\ UNCHANGED <<lk_pool, lk_try, lk_attempt, lk_creates, lk_writes>>
    /\ UNCHANGED notLockVars

\* lines 469-500: the UPDATE or INSERT of execute_query, then the return
WriteRecord(res) ==
    /\ lk_pc = "write"
    /\ lk_writes' = lk_writes + 1
    /\ IF res = "ok"
       THEN /\ lk_pc' = "returned"
            /\ lk_ret' = "id"
            /\ UNCHANGED <<lk_err, lk_where>>
       ELSE /\ SaveFails(res)
            /\ lk_where' = "write"
    /\ UNCHANGED <<lk_pool, lk_try, lk_attempt, lk_creates>>
    /\ UNCHANGED notLockVars

LockInit ==
    /\ lk_pool \in LockPools
    /\ lk_pc = "lease"
    /\ lk_try = 1
    /\ lk_attempt = 0
    /\ lk_creates = 0
    /\ lk_writes = 0
    /\ lk_ret = "none"
    /\ lk_err = "none"
    /\ lk_where = "none"

\* no such call under way
LockIdle ==
    /\ lk_pool = <<>>
    /\ lk_pc = "returned"
    /\ lk_try = 1
    /\ lk_attempt = 0
    /\ lk_creates = 0
    /\ lk_writes = 0
    /\ lk_ret = "none"
    /\ lk_err = "none"
    /\ lk_where = "none"

LockNext ==
    \/ LeaseFromPool
    \/ \E res \in DbResults : CreateConnection(res)
    \/ \E res \in DbResults : SelectExisting(res)
    \/ \E res \in DbResults : WriteRecord(res)

-----------------------------------------------------------------------------
\* Image sync: the triggers (api.py 251-281, app.py 225-232,
\* sync_manager.py 76-83), sync_images and sync_images_override
\* (sync_manager.py 9-55), sync_all_images (image_service.py 325-355) and
\* _batch_process_items (image_service.py 406-474) item by item.

\* items the model lets get_items_without_local_image return
MaxItems == 3

\* who asks for an image sync: POST /sync/images, the --sync-images flag,
\* a data sync (sync_all, sync_all_data)
ImageTriggers == {"post", "flag", "data_sync"}

\* an item of the batch: complete and downloadable; a required field
\* missing; the download gives nothing (download_cover returns None after
\* its attempts); the download or the update raises; the file is fetched
\* but update_interest_local_path answers False
BatchKinds == {"ok", "missing", "no_image", "raises", "update_fails"}

BatchLists == UNION {[1..n -> BatchKinds] : n \in 0..MaxItems}

\* max_items: 0 is None
BatchCaps == 0..MaxItems

\* sync_manager.py 24 and 50: force_download as the trigger's function
\* passes it
ForceOf(trigger) == trigger = "flag"

\* sync_manager.py 76-83 and scheduler.py 126-133: a data sync asks only
\* when download_covers is set
Asks(trigger, download_covers) == trigger = "data_sync" => download_covers

\* image_service.py 337: sync_all_images goes on
Enabled(download_covers, force_download) == download_covers \/ force_download

\* image_service.py 422-423
Capped(items, max_items) ==
    IF max_items # 0 /\ Len(items) > max_items
    THEN SubSeq(items, 1, max_items) ELSE items

\* image_service.py 443-468 with the test of line 457 left out
ProcessItem_NoPathTest(kind) ==
    IF kind = "missing"
    THEN [fetched |-> FALSE, written |-> FALSE, success |-> 0, failed |-> 1]
    ELSE IF kind = "raises"
    THEN [fetched |-> FALSE, written |-> FALSE, success |-> 0, failed |-> 1]
    ELSE IF kind = "update_fails"
    THEN [fetched |-> TRUE, written |-> FALSE, success |-> 0, failed |-> 1]
    ELSE [fetched |-> kind = "ok", written |-> TRUE, success |-> 1, failed |-> 0]

\* image_service.py 443-468: what one turn of the loop does with an item
ProcessItem(kind) ==
    IF kind = "missing"
    THEN [fetched |-> FALSE, written |-> FALSE, success |-> 0, failed |-> 1]
    ELSE IF kind \in {"no_image", "raises"}
    THEN [fetched |-> FALSE, written |-> FALSE, success |-> 0, failed |-> 1]
    ELSE IF kind = "update_fails"
    THEN [fetched |-> TRUE, written |-> FALSE, success |-> 0, failed |-> 1]
    ELSE [fetched |-> TRUE, written |-> TRUE, success |-> 1, failed |-> 0]

\* the trigger's function up to the loop of _batch_process_items:
\* sync_manager.py 18-24 or 43-50, image_service.py 337-351 and 418-431
StartImageSync ==
    /\ im_pc = "asked"
    /\ im_force' = ForceOf(im_trigger)
    /\ IF Enabled(im_download_covers, ForceOf(im_trigger)) /\ im_found # <<>>
       THEN /\ im_pc' = "batch"
            /\ im_items' = Capped(im_found, im_max)
       ELSE /\ im_pc' = "done"
            /\ im_items' = <<>>
    /\ UNCHANGED <<im_trigger, im_download_covers, im_found, im_max, im_i,
                   im_success, im_failed, im_fetched, im_written>>
    /\ UNCHANGED notImgVars

\* image_service.py 433-468: one turn of the loop
BatchItem ==
    /\ im_pc = "batch"
    /\ im_i < Len(im_items)
    /\ LET r == ProcessItem(im_items[im_i + 1]) IN
       /\ im_success' = im_success + r.success
       /\ im_failed' = im_failed + r.failed
       /\ im_fetched' = IF r.fetched THEN im_fetched \cup {im_i + 1} ELSE im_fetched
       /\ im_written' = IF r.written THEN im_written \cup {im_i + 1} ELSE im_written
    /\ im_i' = im_i + 1
    /\ UNCHANGED <<im_trigger, im_download_covers, im_found, im_max, im_pc,
                   im_force, im_items>>
    /\ UNCHANGED notImgVars

\* image_service.py 470-474
BatchEnd ==
    /\ im_pc = "batch"
    /\ im_i = Len(im_items)
    /\ im_pc' = "done"
    /\ UNCHANGED <<im_trigger, im_download_covers, im_found, im_max, im_force,
                   im_items, im_i, im_success, im_failed, im_fetched, im_written>>
    /\ UNCHANGED notImgVars

ImgInit ==
    /\ im_trigger \in ImageTriggers
    /\ im_download_covers \in BOOLEAN
    /\ Asks(im_trigger, im_download_covers)
    /\ im_found \in BatchLists
    /\ im_max \in BatchCaps
    /\ im_trigger # "post" => im_max = 0
    /\ im_pc = "asked"
    /\ im_force = FALSE
    /\ im_items = <<>>
    /\ im_i = 0
    /\ im_success = 0
    /\ im_failed = 0
    /\ im_fetched = {}
    /\ im_written = {}

\* no image sync asked for
ImgIdle ==
    /\ im_trigger = "data_sync"
    /\ im_download_covers = TRUE
    /\ im_found = <<>>
    /\ im_max = 0
    /\ im_pc = "done"
    /\ im_force = FALSE
    /\ im_items = <<>>
    /\ im_i = 0
    /\ im_success = 0
    /\ im_failed = 0
    /\ im_fetched = {}
    /\ im_written = {}

ImgNext ==
    \/ StartImageSync
    \/ BatchItem
    \/ BatchEnd

-----------------------------------------------------------------------------
\* The collection trend: DataAnalyzer._compute_collection_trend
\* (analyzer.py 700-790) over what the provider returns (data_provider.py
\* 508-561), then StatisticsFormatter.format_collection_trend (formatter.py
\* 413-455).  A period key is <<year, month>>, month 0 in a yearly series;
\* the order of the pairs is the order of the strings 'YYYY-MM' and 'YYYY'.

\* periods the provider's rows may name
MaxPeriods == 4

\* the `period` argument: monthly, yearly, anything else
TrendPeriods == {"month", "year", "other"}

\* COUNT(*) of a period that has rows
TrendCounts == {1, 2}

\* analyzer.py 744-747: the month after
NextMonth(k) == <<k[1] + (k[2] \div 12), (k[2] % 12) + 1>>

\* the first key of the samples, chosen so that the months cross a year
FirstMonth == <<2023, 11>>

RECURSIVE MonthKey(_)
MonthKey(i) == IF i = 1 THEN FirstMonth ELSE NextMonth(MonthKey(i - 1))

\* the keys strftime gives for `period` (data_provider.py 527, 538, 549)
PeriodKeys(period) ==
    IF period = "year"
    THEN {<<FirstMonth[1] + i - 1, 0>> : i \in 1..MaxPeriods}
    ELSE {MonthKey(i) : i \in 1..MaxPeriods}

\* what provider.get_collection_trend may return: period -> count
TrendData(period) ==
    UNION {[S -> TrendCounts] : S \in SUBSET PeriodKeys(period)}

\* the order of the key strings
Earlier(a, b) == a[1] < b[1] \/ (a[1] = b[1] /\ a[2] < b[2])

\* analyzer.py 719: sorted(trend_data.keys())
RECURSIVE SortedKeys(_)
SortedKeys(S) ==
    IF S = {} THEN <<>>
    ELSE LET first == CHOOSE a \in S : \A b \in S \ {a} : Earlier(a, b)
         IN <<first>> \o SortedKeys(S \ {first})

\* analyzer.py 739-747: every month from `current` to `last`
RECURSIVE MonthsFrom(_, _)
MonthsFrom(current, last) ==
    IF Earlier(last, current) THEN <<>>
    ELSE <<current>> \o MonthsFrom(NextMonth(current), last)

\* analyzer.py 754-757: every year from start to end
YearsFrom(first, last) == [i \in 1..(last[1] - first[1] + 1) |-> <<first[1] + i - 1, 0>>]

\* analyzer.py 722-762: complete_periods
CompletePeriods(period, sorted) ==
    IF Len(sorted) < 2 THEN sorted
    ELSE IF period = "month" THEN MonthsFrom(sorted[1], sorted[Len(sorted)])
    ELSE IF period = "year" THEN YearsFrom(sorted[1], sorted[Len(sorted)])
    ELSE sorted

\* analyzer.py 764-766: trend_data.get(p, 0)
CountOf(data, p) == IF p \in DOMAIN data THEN data[p] ELSE 0

\* analyzer.py 712-778
ComputeTrend(period, data) ==
    LET labels == CompletePeriods(period, SortedKeys(DOMAIN data))
    IN [labels |-> labels,
        values |-> [i \in 1..Len(labels) |-> CountOf(data, labels[i])]]

\* formatter.py 428-430: list(reversed(...))
Reversed(s) == [i \in 1..Len(s) |-> s[Len(s) + 1 - i]]

\* formatter.py 432-446: '2023-01' becomes '1月', a year stays
FormatLabel(k) == IF k[2] # 0 THEN <<k[2]>> ELSE k

\* formatter.py 413-455
FormatCollectionTrend(raw) ==
    LET labels == Reversed(raw.labels)
        values == Reversed(raw.values)
    IN [labels |-> [i \in 1..Len(labels) |-> FormatLabel(labels[i])],
        original_labels |-> labels,
        values |-> values]

NoTrend == [labels |-> <<>>, values |-> <<>>]
NoChart == [labels |-> <<>>, original_labels |-> <<>>, values |-> <<>>]

\* statistics_service.py 348: analyzer.get_collection_trend
AnalyzeTrend ==
    /\ tr_pc = "asked"
    /\ tr_raw' = ComputeTrend(tr_period, tr_data)
    /\ tr_pc' = "analyzed"
    /\ UNCHANGED <<tr_period, tr_data, tr_out>>
    /\ UNCHANGED notTrendVars

\* statistics_service.py 349: formatter.format_collection_trend
FormatTrend ==
    /\ tr_pc = "analyzed"
    /\ tr_out' = FormatCollectionTrend(tr_raw)
    /\ tr_pc' = "formatted"
    /\ UNCHANGED <<tr_period, tr_data, tr_raw>>
    /\ UNCHANGED notTrendVars

TrendInit ==
    /\ tr_period \in TrendPeriods
    /\ tr_data \in TrendData(tr_period)
    /\ tr_pc = "asked"
    /\ tr_raw = NoTrend
    /\ tr_out = NoChart

\* no trend asked for
TrendIdle ==
    /\ tr_period = "month"
    /\ tr_data = <<>>
    /\ tr_pc = "formatted"
    /\ tr_raw = NoTrend
    /\ tr_out = NoChart

TrendNext ==
    \/ AnalyzeTrend
    \/ FormatTrend

-----------------------------------------------------------------------------
\* One dashboard: StatisticsService.get_dashboard (statistics_service.py
\* 45-89) over its cache (_get_from_cache 522-539, _save_to_cache 541-560),
\* StatisticsFormatter.format_dashboard_statistics (formatter.py 624-707)
\* and the analyzer's cache (analyzer.py 36-63).  One cache key, one
\* analyzer key; the statistics of the database are one number.

\* the statistics the database can hold
MaxStat == 1
\* seconds between two readings of time.time(), and the last reading
ClockStep == 200
MaxClock == 800

\* analyzer.py 18 and statistics_service.py 20
CACHE_TTL == 300
DASHBOARD_CACHE_TTL == 600

\* how format_dashboard_statistics ends: no exception, one raised by an
\* analyzer call, one raised while formatting what the analyzer returned
FormatEnds == {"fine", "analyzer_raises", "formatter_raises"}

\* an empty cache slot, written {} ; a filled one is {entry}
NoEntry == {}

\* analyzer.py 50-51 and statistics_service.py 534-536: the entry is served
Served(slot, t_now, ttl) == {e \in slot : t_now - e.time < ttl}

\* analyzer.py 47-63: the cache slot after _get_cached_or_fetch
AnalyzerSlotAfter(slot, t_now, db) ==
    IF Served(slot, t_now, CACHE_TTL) # {} THEN slot
    ELSE {[value |-> db, time |-> t_now]}

\* analyzer.py 47-63: what _get_cached_or_fetch returns
GetCachedOrFetch(slot, t_now, db) ==
    CHOOSE v \in 0..MaxStat : \E e \in AnalyzerSlotAfter(slot, t_now, db) : e.value = v

\* formatter.py 637-707: the dashboard, or the error payload of 702-707
FormatDashboardStatistics(ends, slot, t_now, db) ==
    IF ends = "fine"
    THEN [error |-> FALSE, value |-> GetCachedOrFetch(slot, t_now, db)]
    ELSE [error |-> TRUE, value |-> 0]

\* statistics_service.py 45-89
GetDashboard(skip_cache, ends) ==
    LET cached == Served(ds_dash, ds_clock, DASHBOARD_CACHE_TTL)
        data == FormatDashboardStatistics(ends, ds_analyzer, ds_clock, ds_db)
    IN IF ~skip_cache /\ cached # {}
       THEN /\ ends = "fine"
            /\ ds_resp' = [from |-> "cache", skip |-> skip_cache, db |-> ds_db,
                           error |-> (CHOOSE e \in cached : TRUE).error,
                           value |-> (CHOOSE e \in cached : TRUE).value]
            /\ UNCHANGED <<ds_dash, ds_analyzer>>
       ELSE /\ ds_analyzer' = IF ends = "analyzer_raises" THEN ds_analyzer
                              ELSE AnalyzerSlotAfter(ds_analyzer, ds_clock, ds_db)
            /\ ds_dash' = {[error |-> data.error, value |-> data.value,
                           time |-> ds_clock]}
            /\ ds_resp' = [from |-> "computed", skip |-> skip_cache, db |-> ds_db,
                           error |-> data.error, value |-> data.value]

\* GET /api/statistics/dashboard (api.py 243-244)
DashboardRequest(skip_cache, ends) ==
    /\ GetDashboard(skip_cache, ends)
    /\ UNCHANGED <<ds_db, ds_clock>>
    /\ UNCHANGED notDashVars

\* a sync writes records: the statistics change
DbChange(v) ==
    /\ v # ds_db
    /\ ds_db' = v
    /\ UNCHANGED <<ds_clock, ds_dash, ds_analyzer, ds_resp>>
    /\ UNCHANGED notDashVars

\* time passes
ClockTick ==
    /\ ds_clock + ClockStep <= MaxClock
    /\ ds_clock' = ds_clock + ClockStep
    /\ UNCHANGED <<ds_db, ds_dash, ds_analyzer, ds_resp>>
    /\ UNCHANGED notDashVars

NoResponse == [from |-> "none", skip |-> FALSE, db |-> 0, error |-> FALSE, value |-> 0]

DashInit ==
    /\ ds_db \in 0..MaxStat
    /\ ds_clock = 0
    /\ ds_dash = NoEntry
    /\ ds_analyzer = NoEntry
    /\ ds_resp = NoResponse

\* no dashboard asked for
DashIdle ==
    /\ ds_db = 0
    /\ ds_clock = 0
    /\ ds_dash = NoEntry
    /\ ds_analyzer = NoEntry
    /\ ds_resp = NoResponse

DashNext ==
    \/ \E skip_cache \in BOOLEAN, ends \in FormatEnds : DashboardRequest(skip_cache, ends)
    \/ \E v \in 0..MaxStat : DbChange(v)
    \/ ClockTick

-----------------------------------------------------------------------------
\* JSONExporter.export_all_types (json_exporter.py 264-309) with its threads
\* on _export_single_type_status (311-324) and export_data (47-146) over
\* Database.get_interests (database.py 509-598).  data_limit (10000) is far
\* above the rows of the samples and is left out.

\* rows of table interests when the export starts
MaxExportRows == 2

\* the types the rows may have
ExportTypes == {"movie", "book"}

\* the statuses the sync stores (scheduler.py 225-226, database.py 625)
StoredStatuses == {"mark", "doing", "done"}

\* json_exporter.py 283: the statuses export_all_types asks for
ExportStatuses == {"wish", "doing", "done"}

ExportRows == [1..MaxExportRows -> [type : ExportTypes, status : StoredStatuses]]

\* json_exporter.py 44, database.py 693-700: SELECT DISTINCT type
SupportedTypes(rows) == {rows[i].type : i \in DOMAIN rows}

\* json_exporter.py 281-289: one thread per type and status
ExportTasks(rows) == SupportedTypes(rows) \X ExportStatuses

\* database.py 537-546: the rows get_interests selects
Selected(rows, type_, status) ==
    {i \in DOMAIN rows : rows[i].type = type_ /\ rows[i].status = status}

\* json_exporter.py 284-289: the main thread starts the thread of a task
StartTask(task) ==
    /\ ex_main = "starting"
    /\ task \in ExportTasks(ex_rows) \ ex_started
    /\ ex_started' = ex_started \cup {task}
    /\ UNCHANGED <<ex_rows, ex_main, ex_done, ex_files, ex_index>>
    /\ UNCHANGED notExportVars

\* json_exporter.py 291-292: every thread is started, the joins begin
BeginJoin ==
    /\ ex_main = "starting"
    /\ ex_started = ExportTasks(ex_rows)
    /\ ex_main' = "joining"
    /\ UNCHANGED <<ex_rows, ex_started, ex_done, ex_files, ex_index>>
    /\ UNCHANGED notExportVars

\* json_exporter.py 311-324 and 47-146: a thread exports its type and
\* status; export_data writes no file when get_interests selects nothing
RunTask(task) ==
    /\ task \in ex_started \ ex_done
    /\ ex_done' = ex_done \cup {task}
    /\ LET items == Selected(ex_rows, task[1], task[2])
       IN ex_files' = IF items = {} THEN ex_files
                      ELSE ex_files \cup {[name |-> task, interests |-> items]}
    /\ UNCHANGED <<ex_rows, ex_main, ex_started, ex_index>>
    /\ UNCHANGED notExportVars

\* json_exporter.py 292-309: join() has returned for every thread; the index
\* lists the files of the directory
WriteIndex ==
    /\ ex_main = "joining"
    /\ ex_done = ex_started
    /\ ex_index' = {{f.name : f \in ex_files}}
    /\ ex_main' = "returned"
    /\ UNCHANGED <<ex_rows, ex_started, ex_done, ex_files>>
    /\ UNCHANGED notExportVars

ExportInit ==
    /\ ex_rows \in ExportRows
    /\ ex_main = "starting"
    /\ ex_started = {}
    /\ ex_done = {}
    /\ ex_files = {}
    /\ ex_index = {}

\* no export asked for
ExportIdle ==
    /\ ex_rows = <<>>
    /\ ex_main = "returned"
    /\ ex_started = {}
    /\ ex_done = {}
    /\ ex_files = {}
    /\ ex_index = {}

ExportNext ==
    \/ \E task \in ExportTypes \X ExportStatuses : StartTask(task)
    \/ BeginJoin
    \/ \E task \in ExportTypes \X ExportStatuses : RunTask(task)
    \/ WriteIndex

-----------------------------------------------------------------------------
\* The connections of StatisticsDataProvider (data_provider.py): _get_connection
\* (43-56), _return_connection (68-99), _execute_query (101-148) and the
\* three repairs fix_invalid_genres, fix_null_card_subtitles and
\* fix_invalid_date (687-735), one operation at a time.

\* operations the model lets the provider run
MaxProvCalls == 3

\* data_provider.py 18
PROVIDER_MAX_POOL_SIZE == 3

ProviderOps == {"execute_query", "fix_invalid_genres",
                "fix_null_card_subtitles", "fix_invalid_date"}

\* how a statement on the connection ends: it succeeds or raises sqlite3.Error
SqlResults == {"ok", "error"}

\* data_provider.py 101-148: the operation has a finally clause that returns
\* the connection
HasFinally(op) == op = "execute_query"

\* an operation is called
ProvBegin(op) ==
    /\ pv_pc = "idle"
    /\ pv_calls < MaxProvCalls
    /\ pv_calls' = pv_calls + 1
    /\ pv_op' = op
    /\ pv_pc' = "lease"
    /\ pv_leased' = FALSE
    /\ pv_handed' = 0
    /\ UNCHANGED <<pv_pool, pv_lost>>
    /\ UNCHANGED notProvVars

\* data_provider.py 43-56: a pooled connection, or a new one, whose creation
\* may raise
GetProviderConnection(res) ==
    /\ pv_pc = "lease"
    /\ res = "error" => pv_pool = 0
    /\ IF res = "ok"
       THEN /\ pv_pool' = IF pv_pool > 0 THEN pv_pool - 1 ELSE 0
            /\ pv_leased' = TRUE
            /\ pv_pc' = "execute"
       ELSE /\ pv_pc' = "over"
            /\ UNCHANGED <<pv_pool, pv_leased>>
    /\ UNCHANGED <<pv_op, pv_calls, pv_handed, pv_lost>>
    /\ UNCHANGED notProvVars

\* cursor.execute (lines 119, 692, 705, 729): on sqlite3.Error _execute_query
\* goes to its finally clause, a repair to its except clause and returns
ProvExecute(res) ==
    /\ pv_pc = "execute"
    /\ pv_pc' = IF HasFinally(pv_op) THEN "return"
                ELSE IF res = "ok" THEN "commit" ELSE "over"
    /\ pv_lost' = IF ~HasFinally(pv_op) /\ res = "error" THEN pv_lost + 1 ELSE pv_lost
    /\ UNCHANGED <<pv_op, pv_calls, pv_pool, pv_leased, pv_handed>>
    /\ UNCHANGED notProvVars

\* conn.commit (lines 693, 707, 730) of a repair
ProvCommit(res) ==
    /\ pv_pc = "commit"
    /\ pv_pc' = IF res = "ok" THEN "return" ELSE "over"
    /\ pv_lost' = IF res = "error" THEN pv_lost + 1 ELSE pv_lost
    /\ UNCHANGED <<pv_op, pv_calls, pv_pool, pv_leased, pv_handed>>
    /\ UNCHANGED notProvVars

\* data_provider.py 68-99: _return_connection pools a connection that
\* answers SELECT 1 while the pool has room, and closes it otherwise
ReturnConnection(valid) ==
    /\ pv_pc = "return"
    /\ pv_handed' = pv_handed + 1
    /\ pv_pool' = IF valid /\ pv_pool < PROVIDER_MAX_POOL_SIZE
                  THEN pv_pool + 1 ELSE pv_pool
    /\ pv_pc' = "over"
    /\ UNCHANGED <<pv_op, pv_calls, pv_leased, pv_lost>>
    /\ UNCHANGED notProvVars

\* the operation has returned to its caller
ProvEnd ==
    /\ pv_pc = "over"
    /\ pv_pc' = "idle"
    /\ UNCHANGED <<pv_op, pv_calls, pv_pool, pv_leased, pv_handed, pv_lost>>
    /\ UNCHANGED notProvVars

ProvInit ==
    /\ pv_op = "execute_query"
    /\ pv_pc = "idle"
    /\ pv_calls = 0
    /\ pv_pool = 0
    /\ pv_leased = FALSE
    /\ pv_handed = 0
    /\ pv_lost = 0

\* the provider is not used
ProvIdle == ProvInit

ProvNext ==
    \/ \E op \in ProviderOps : ProvBegin(op)
    \/ \E res \in SqlResults : GetProviderConnection(res)
    \/ \E res \in SqlResults : ProvExecute(res)
    \/ \E res \in SqlResults : ProvCommit(res)
    \/ \E valid \in BOOLEAN : ReturnConnection(valid)
    \/ ProvEnd

\* the state outside the specification under check is at rest
ExtIdle == PoolInit /\ SaveIdle /\ IntIdle /\ ScanIdle /\ PageIdle /\ FetchIdle /\ LockIdle /\ ImgIdle /\ TrendIdle /\ DashIdle /\ ExportIdle /\ ProvIdle

Init == SyncInit /\ SdIdle /\ DbInit /\ CacheInit /\ ExtIdle

Next == SyncNext

Spec == Init /\ [][Next]_vars

InitStatus == SyncInit /\ SdInit /\ DbInit /\ CacheInit /\ ExtIdle

SpecStatus == InitStatus /\ [][SdNext]_vars

SpecDb == Init /\ [][DbNext]_vars

SpecCache == Init /\ [][CacheNext]_vars

SpecPool == Init /\ [][PoolNext]_vars

SpecStore == Init /\ [][StoreNext]_vars

InitSave == SyncInit /\ SdIdle /\ DbInit /\ CacheInit /\ PoolInit /\ SaveInit /\ IntIdle /\ ScanIdle /\ PageIdle /\ FetchIdle /\ LockIdle /\ ImgIdle /\ TrendIdle /\ DashIdle /\ ExportIdle /\ ProvIdle

SpecSave == InitSave /\ [][SaveNext]_vars

InitInt == SyncInit /\ SdIdle /\ DbInit /\ CacheInit /\ PoolInit /\ SaveIdle /\ IntInit /\ ScanIdle /\ PageIdle /\ FetchIdle /\ LockIdle /\ ImgIdle /\ TrendIdle /\ DashIdle /\ ExportIdle /\ ProvIdle

SpecInt == InitInt /\ [][IntNext]_vars

InitScan == SyncInit /\ SdIdle /\ DbInit /\ CacheInit /\ PoolInit /\ SaveIdle /\ IntIdle /\ ScanInit /\ PageIdle /\ FetchIdle /\ LockIdle /\ ImgIdle /\ TrendIdle /\ DashIdle /\ ExportIdle /\ ProvIdle

SpecScan == InitScan /\ [][ScanNext]_vars

InitPage == SyncInit /\ SdIdle /\ DbInit /\ CacheInit /\ PoolInit /\ SaveIdle /\ IntIdle /\ ScanIdle /\ PageInit /\ FetchIdle /\ LockIdle /\ ImgIdle /\ TrendIdle /\ DashIdle /\ ExportIdle /\ ProvIdle

SpecPage == InitPage /\ [][PageNext]_vars

InitFetch == SyncInit /\ SdIdle /\ DbInit /\ CacheInit /\ PoolInit /\ SaveIdle /\ IntIdle /\ ScanIdle /\ PageIdle /\ FetchInit /\ LockIdle /\ ImgIdle /\ TrendIdle /\ DashIdle /\ ExportIdle /\ ProvIdle

SpecFetch == InitFetch /\ [][FetchNext]_vars

\* get_interests runs in one thread and every step of it ends: requests.get
\* has a timeout (REQUEST_TIMEOUT) and the sleeps are finite
FairFetch == SpecFetch /\ WF_vars(FetchNext)

InitLock == SyncInit /\ SdIdle /\ DbInit /\ CacheInit /\ PoolInit /\ SaveIdle /\ IntIdle /\ ScanIdle /\ PageIdle /\ FetchIdle /\ LockInit /\ ImgIdle /\ TrendIdle /\ DashIdle /\ ExportIdle /\ ProvIdle

SpecLock == InitLock /\ [][LockNext]_vars

InitImg == SyncInit /\ SdIdle /\ DbInit /\ CacheInit /\ PoolInit /\ SaveIdle /\ IntIdle /\ ScanIdle /\ PageIdle /\ FetchIdle /\ LockIdle /\ ImgInit /\ TrendIdle /\ DashIdle /\ ExportIdle /\ ProvIdle

SpecImg == InitImg /\ [][ImgNext]_vars

InitTrend == SyncInit /\ SdIdle /\ DbInit /\ CacheInit /\ PoolInit /\ SaveIdle /\ IntIdle /\ ScanIdle /\ PageIdle /\ FetchIdle /\ LockIdle /\ ImgIdle /\ TrendInit /\ DashIdle /\ ExportIdle /\ ProvIdle

SpecTrend == InitTrend /\ [][TrendNext]_vars

InitDash == SyncInit /\ SdIdle /\ DbInit /\ CacheInit /\ PoolInit /\ SaveIdle /\ IntIdle /\ ScanIdle /\ PageIdle /\ FetchIdle /\ LockIdle /\ ImgIdle /\ TrendIdle /\ DashInit /\ ExportIdle /\ ProvIdle

SpecDash == InitDash /\ [][DashNext]_vars

InitExport == SyncInit /\ SdIdle /\ DbInit /\ CacheInit /\ PoolInit /\ SaveIdle /\ IntIdle /\ ScanIdle /\ PageIdle /\ FetchIdle /\ LockIdle /\ ImgIdle /\ TrendIdle /\ DashIdle /\ ExportInit /\ ProvIdle

SpecExport == InitExport /\ [][ExportNext]_vars

InitProv == SyncInit /\ SdIdle /\ DbInit /\ CacheInit /\ PoolInit /\ SaveIdle /\ IntIdle /\ ScanIdle /\ PageIdle /\ FetchIdle /\ LockIdle /\ ImgIdle /\ TrendIdle /\ DashIdle /\ ExportIdle /\ ProvInit

SpecProv == InitProv /\ [][ProvNext]_vars

\* Liveness is checked on the runs themselves, with the clock standing still
\* while they execute: the scheduler is idle, either never synced or last
\* fully synced MaxNow days ago, when the threads start.
FairInit ==
    /\ is_syncing = FALSE
    /\ now = MaxNow
    /\ \E t \in {{}, {0}} : last_sync = t /\ last_full_sync = t
    /\ pc = [r \in Runners |->
                IF r = Periodic THEN "p_sleep"
                ELSE IF r \in Directs THEN "idle" ELSE "none"]
    /\ arg_inc = [r \in Runners |-> TRUE]
    /\ inc = [r \in Runners |-> TRUE]
    /\ days = [r \in Runners |-> {}]
    /\ idx = [r \in Runners |-> 0]
    /\ modes = [r \in Runners |-> {}]
    /\ outcome = [r \in Runners |-> "none"]
    /\ hpc = [h \in Handlers |-> "idle"]
    /\ hresp = [h \in Handlers |-> 0]
    /\ SdIdle
    /\ DbInit
    /\ CacheInit
    /\ ExtIdle

FairNext ==
    \/ \E r \in Runners : SadCheck(r)
    \/ \E r \in Runners : SadSet(r)
    \/ \E r \in Runners : SadAge(r)
    \/ \E r \in Runners : SadEscalate(r)
    \/ \E r \in Runners : \E res \in {"ok", "fail", "raise"} : SadSyncType(r, res)
    \/ \E r \in Runners : SadFinally(r)
    \/ \E d \in Directs : \E i \in BOOLEAN : DirectCall(d, i)
    \/ \E h \in Handlers : ApiSyncCheck(h)
    \/ \E h \in Handlers : \E i \in BOOLEAN : StartAsyncSync(h, i)
    \/ \E h \in Handlers : WorkerSet(h)
    \/ \E h \in Handlers : WorkerFinally(h)
    \/ PeriodicClaim
    \/ PeriodicAge
    \/ PeriodicFinally

\* every thread keeps running: the interpreter schedules each live thread and
\* every step of a run returns (requests carry a timeout)
ThreadStep(r) ==
    \/ SadCheck(r) \/ SadSet(r) \/ SadAge(r) \/ SadEscalate(r)
    \/ \E res \in {"ok", "fail", "raise"} : SadSyncType(r, res)
    \/ SadFinally(r)
    \/ (r \in Handlers /\ (WorkerSet(r) \/ WorkerFinally(r)))
    \/ (r = Periodic /\ (PeriodicAge \/ PeriodicFinally))

FairSpec ==
    FairInit /\ [][FairNext]_vars /\ \A r \in Runners : WF_vars(ThreadStep(r))

-----------------------------------------------------------------------------
(* Properties of the scheduler *)

\* worker threads of start_async_sync that have not finished
LiveWorkers == {h \in Handlers : pc[h] \notin {"none", "done"}}

\* r has set the state to syncing and has not yet reached the end of its run
Holding(r) ==
    IF r \in Directs THEN InRun(r)
    ELSE IF r \in Handlers THEN r \in LiveWorkers
    ELSE pc[r] # "p_sleep"

\* what a start_async_sync call and the check of POST /sync answer
C1_Step ==
    \A h \in Handlers :
        /\ (hpc[h] = "start" /\ hpc'[h] = "done" /\ is_syncing)
              => /\ hresp'[h] = 500
                 /\ pc'[h] = "none"
                 /\ is_syncing'
        /\ (hpc[h] = "start" /\ hpc'[h] = "done" /\ ~is_syncing)
              => /\ hresp'[h] = 200
                 /\ pc'[h] = "w_set"
                 /\ is_syncing'
        /\ (hpc[h] = "idle" /\ hpc'[h] # "idle" /\ is_syncing)
              => /\ hresp'[h] = 409
                 /\ hpc'[h] = "done"
                 /\ pc'[h] = "none"

\* at most one worker thread is alive unless a direct call interferes
C1_OneWorker ==
    (\A d \in Directs : pc[d] = "idle") => Cardinality(LiveWorkers) <= 1

C2_BackgroundRunSyncs ==
    \A r \in Handlers \cup {Periodic} :
        (pc[r] \in {"w_fin", "p_fin"} /\ outcome[r] # "raised")
            => idx[r] = Len(sync_types)

\* C3: at most one thread is inside the per-type loop of sync_all_data, and
\* is_syncing is true while a thread is inside it.
C3_LoopExclusive ==
    /\ Cardinality({r \in Runners : InLoop(r)}) <= 1
    /\ \A r \in Runners : InLoop(r) => is_syncing

\* the step with which thread r ends the run in which it set the state
EndsRun(r) ==
    \/ pc[r] = "sad_fin" /\ pc'[r] # "sad_fin"
    \/ pc[r] = "w_fin" /\ pc'[r] # "w_fin"
    \/ pc[r] = "p_fin" /\ pc'[r] # "p_fin"

\* the end of a run, and a start_async_sync call after it
C4_Step ==
    /\ \A r \in Runners :
          EndsRun(r) => (~is_syncing' /\ last_sync' = {now})
    /\ \A h \in Handlers :
          (hpc[h] = "start" /\ hpc'[h] = "done" /\ ~is_syncing /\ last_sync # {})
              => (hresp'[h] = 200 /\ pc'[h] = "w_set")

Overdue(r) == \E d \in days[r] : d > 30

\* an overdue run is in full mode
C8_Inv ==
    \A r \in Runners :
        (Overdue(r) /\ pc[r] \in {"sad_loop", "sad_fin", "w_fin", "p_fin"})
            => (~inc[r] /\ modes[r] \subseteq {FALSE})

\* an overdue run ends with last_full_sync set
C8_Step ==
    \A r \in Runners :
        (Overdue(r) /\ (pc[r] = "sad_fin" \/ pc[r] = "p_fin") /\ pc'[r] # pc[r])
            => last_full_sync' = {now}

\* C8: a run whose age check found more than FULL_SYNC_DAYS days since the
\* last full sync runs in full mode: every sync_data_by_type call of the run
\* gets incremental = False, and the step that ends the run sets
\* last_full_sync to the current time.
C8_OverdueRunIsFull == []C8_Inv /\ [][C8_Step]_vars

\* an incremental direct run found the last full sync overdue and has run
\* every type in full mode
C8_Witness ==
    \E r \in Runners :
        /\ Overdue(r) /\ arg_inc[r]
        /\ pc[r] = "sad_fin"
        /\ idx[r] = Len(sync_types)
        /\ modes[r] = {FALSE}

-----------------------------------------------------------------------------
(* Properties of the status iteration *)

\* the pre-check of this iteration has returned
SdChecked == sd_pc \in {"decide", "skipped", "fetch"} /\ sd_in.incremental

\* the local count the pre-check compares with
SdLocal ==
    IF sd_in.type_ = "movie" THEN sd_in.local_count + sd_in.local_tv
    ELSE sd_in.local_count

\* the timestamp the pre-check compares with
SdLatest ==
    IF sd_in.type_ = "movie" /\ sd_in.tv_ts > sd_in.last_time
    THEN sd_in.tv_ts ELSE sd_in.last_time

\* one of the first five items of the page is newer than the local data
SdNewerInSample ==
    \E i \in 1..sd_in.n : i <= 5 /\ ItemTime(sd_in.k, i) > SdLatest

\* C6: when the page-1 request of an incremental pre-check fails with a
\* network error, the pre-check reports updates and the status is fetched
\* in full, not skipped.
C6_NetErrorAssumesUpdates ==
    (SdChecked /\ sd_in.last_time # 0 /\ sd_in.resp = "net_error")
        => (sd_pre.has_updates /\ sd_pc # "skipped")

\* C7: in an incremental pre-check with a local timestamp and a non-empty
\* first page, a count difference of at most 3, or of at most 2% of a remote
\* total above 100, leaves the result to the timestamps of the first five
\* items; a larger difference gives "has updates".  Local 100 / remote 101
\* is within the tolerance, local 100 / remote 210 is not.
C7_CountTolerance ==
    (SdChecked /\ sd_in.last_time # 0 /\ sd_in.resp = "page" /\ sd_in.n > 0)
        => LET diff == Abs(sd_in.total - SdLocal)
               within == \/ diff <= 3
                         \/ (sd_in.total > 100 /\ 100 * diff <= 2 * sd_in.total)
           IN /\ within => (sd_pre.has_updates = SdNewerInSample)
              /\ ~within => sd_pre.has_updates
              /\ (SdLocal = 100 /\ sd_in.total = 101) => within
              /\ (SdLocal = 100 /\ sd_in.total = 210) => ~within

\* local 100 / remote 101 with no newer item: the status is skipped
C7_Witness ==
    /\ sd_pc = "skipped"
    /\ sd_in.last_time # 0 /\ sd_in.resp = "page" /\ sd_in.n > 0
    /\ SdLocal = 100 /\ sd_in.total = 101
    /\ ~SdNewerInSample

-----------------------------------------------------------------------------
(* Properties of the interests table *)

\* thread s completes a save_interest call with this step
SaveReturns(s) == sv_pc[s] = "write" /\ sv_pc'[s] = "idle"

\* no id is stored twice
C5_OneRowPerId ==
    \A id \in Ids : Cardinality(RowsWithId(db_rows, id)) <= 1

\* what a returning save_interest call leaves in the table
C5_Step ==
    \A s \in Savers :
        SaveReturns(s) =>
            /\ sv_exists[s] => sv_ret'[s].kind = "updated"
            /\ sv_ret'[s].kind \in {"new", "updated"} =>
                  \E r \in db_rows' :
                      /\ RowsWithId(db_rows', sv_rec[s].id) = {r}
                      /\ r.type = sv_rec[s].type
                      /\ r.status = sv_rec[s].status
                      /\ r.year = sv_rec[s].year

\* C5: the table never holds two rows with the same id; a save_interest call
\* for an id that is already stored succeeds and updates that row, and after
\* every successful save the single row of the id carries the values of that
\* call.
C5_UpsertById == []C5_OneRowPerId /\ [][C5_Step]_vars

\* an id was saved a second time, and both ids are stored
C5_Witness ==
    /\ \E s \in Savers : sv_ret[s].kind = "updated"
    /\ \A id \in Ids : Cardinality(RowsWithId(db_rows, id)) = 1

\* the answer of one GET /interests request
C9_Step ==
    \A t \in {"", "movie"}, st \in {"", "done"}, y \in Years,
       so \in {"asc", "desc"}, l \in {1, 50}, o \in {0, 1} :
        ApiInterests(t, st, y, so, l, o) =>
            /\ api_resp'.code = 200
            /\ api_resp'.items = GetInterests(db_rows, t, st, y, so, l, o)
            /\ api_resp'.total = Cardinality(Matching(db_rows, t, st, y))

\* C9: with all services initialized, every GET /interests request is
\* answered 200 with the requested page of the rows matching the filters and
\* with the number of rows matching the same filters.
C9_InterestsAnswers == [][C9_Step]_vars

-----------------------------------------------------------------------------
(* Properties of the dashboard cache *)

\* C10: the dashboard cache never holds more than 20 entries.
C10_CacheAtMost20 == Cardinality(DOMAIN dashboard_cache) <= 20

-----------------------------------------------------------------------------
(* Properties of the connection pool *)

\* a lease of thread t that found the pool empty
LeaseOnEmpty(t) ==
    /\ connection_pool = <<>>
    /\ Len(held'[t]) = Len(held[t]) + 1

\* a release of thread t that found the pool full
ReleaseOnFull(t) ==
    /\ Len(connection_pool) = 5
    /\ Len(held'[t]) = Len(held[t]) - 1

\* what a lease from the empty pool and a release into the full pool do
C11_Step ==
    \A t \in Leasers :
        /\ LeaseOnEmpty(t) =>
              /\ Len(conn_owner') = Len(conn_owner) + 1
              /\ held'[t][Len(held'[t])] = Len(conn_owner')
              /\ connection_pool' = <<>>
        /\ ReleaseOnFull(t) =>
              /\ connection_pool' = connection_pool
              /\ held[t][Len(held[t])] \in closed_conns'

\* the pool holds at most 5 connections, each once, none of them closed
C11_PoolBounded ==
    /\ Len(connection_pool) <= 5
    /\ Cardinality(Pooled) = Len(connection_pool)
    /\ Pooled \cap closed_conns = {}

\* a thread that may lease is never made to wait for a release
C11_NeverBlocks ==
    \A t \in Leasers :
        (Len(held[t]) < MaxHeld /\ Len(conn_owner) < MaxConns)
            => ENABLED GetConnection(t, "ok")

\* C11: under every interleaving of leases and releases the pool never holds
\* more than 5 connections; a connection released while the pool holds 5 is
\* closed and the pool is left as it was; a lease that finds the pool empty
\* holds a newly created connection, and no lease waits for a release.
C11_PoolCapacity ==
    /\ []C11_PoolBounded
    /\ []C11_NeverBlocks
    /\ [][C11_Step]_vars

\* six connections were leased at once (four of them created by leases that
\* found no usable pooled connection); five are pooled again and the sixth
\* was closed on release
C11_Witness ==
    /\ Len(connection_pool) = 5
    /\ closed_conns # {}
    /\ \A t \in Leasers : held[t] = <<>>

-----------------------------------------------------------------------------
(* Properties of the stored ids *)

StoredIds(rows) == {r.id : r \in rows}

\* C12: no step of a sync run's saves, of an image sync or of a data repair
\* removes an id from table interests: an id once stored stays stored,
\* whatever the later saves (the remote list) contain.
C12_IdsNeverShrink == [][StoredIds(db_rows) \subseteq StoredIds(db_rows')]_vars

\* both ids are stored, one repaired after a save with an unreadable date,
\* one with its image path set
C12_Witness ==
    /\ StoredIds(db_rows) = Ids
    /\ \E r \in db_rows : r.create_time = "now"
    /\ \E r \in db_rows : r.local_path = "img"

-----------------------------------------------------------------------------
(* Properties of the values save_interest stores *)

\* the row a completed save_interest call wrote
Written == {r \in si_row : r # NoRow}

\* C13: every row save_interest writes has a type among the normalized
\* lowercase categories and a status among mark, doing, done, whatever the
\* record looked like.
C13_TypeStatusNormalized ==
    \A r \in Written :
        /\ r.type \in {"movie", "tv", "book", "music", "game", "drama"}
        /\ r.status \in {"mark", "doing", "done"}

\* C14: every row save_interest writes has year 0 or a year within the range
\* of its type (book 1500-2100, music 1900-2100, game 1980-2100), whether the
\* year came from the subject's year field or from the subtitle.
C14_YearPlausible ==
    \A r \in Written :
        \/ r.year = 0
        \/ /\ r.type = "book" => (1500 <= r.year /\ r.year <= 2100)
           /\ r.type = "music" => (1900 <= r.year /\ r.year <= 2100)
           /\ r.type = "game" => (1980 <= r.year /\ r.year <= 2100)

-----------------------------------------------------------------------------
(* Properties of validate_int *)

\* the value has an integer value: an int, an integer literal or a finite float
Convertible(value) == value.kind \in {"int", "str", "float"}

\* the integer the value stands for
ConvertedInt(value) ==
    IF value.kind = "float" /\ value.n < 0 THEN value.n + 1 ELSE value.n

\* C15: validate_int never raises; a value that cannot be converted to an
\* integer gives the default; a convertible value gives its integer clamped
\* into [min_value, max_value].  validate_int("abc", default 5, 1, 10) is 5
\* and validate_int(15, default 5, 1, 10) is 10.
C15_ValidateInt ==
    \A out \in vi_out :
        /\ out.exc = ""
        /\ ~Convertible(vi_in.value) => out.result = vi_in.default
        /\ Convertible(vi_in.value) =>
              LET n == ConvertedInt(vi_in.value) IN
              /\ \A m \in vi_in.min_value : out.result >= m
              /\ \A m \in vi_in.max_value : out.result <= m
              /\ ((\A m \in vi_in.min_value : n >= m)
                     /\ (\A m \in vi_in.max_value : n <= m))
                    => out.result = n
        /\ (vi_in.value.kind = "text" /\ vi_in.default = 5) => out.result = 5
        /\ (vi_in.value = [kind |-> "int", n |-> 15] /\ vi_in.max_value = {10})
              => out.result = 10

-----------------------------------------------------------------------------
\* sync_data_by_type over its three statuses (SpecScan)

\* the call has returned overall_success
ScanReturned == sc_pc = "done"

\* C16: sync_data_by_type attempts all three statuses even when an earlier
\* one fails, and its result is false whenever the processing of at least
\* one status failed: the fetch gave up on errors or raised, or a record
\* could not be written.
C16_FailureReported ==
    ScanReturned =>
        /\ sc_st = Len(ScanStatuses) + 1
        /\ sc_fail # {} => ~sc_ok

\* an incremental scan with a recorded latest timestamp is at an item
\* whose create_time is not newer than it
AtStaleItem ==
    /\ sc_pc = "scan"
    /\ sc_i < sc_end
    /\ sc_inc
    /\ sc_last # 0
    /\ CurKind \in {"old", "same", "noid"}
    /\ CreateTime(CurKind) <= sc_last

\* C17: in an incremental per-status scan with a recorded latest timestamp,
\* no item whose create_time is not newer than that timestamp is written:
\* the turn of the loop that handles it stores nothing and counts it as
\* skipped (an item without id is not even counted), or abandons it with
\* the rest of the list.
C17_StaleNotWritten ==
    [][AtStaleItem =>
          IF sc_pc' = "scan"
          THEN /\ sc_saved' = sc_saved
               /\ sc_loop'.write_count = sc_loop.write_count
               /\ sc_loop'.skip_count =
                      sc_loop.skip_count + (IF CurKind = "noid" THEN 0 ELSE 1)
          ELSE sc_saved' = {}]_vars

\* a scan wrote the newer first item, skipped the rest of the page and the
\* as-old first item of the next one
C17_Witness ==
    /\ sc_pc = "scan"
    /\ sc_inc
    /\ sc_last = LastTime
    /\ sc_pat = "same1"
    /\ sc_i = page_size + 1
    /\ sc_saved = {0}
    /\ sc_loop.skip_count = page_size

\* the scan has an item at hand
AtItem == sc_pc = "scan" /\ sc_i < sc_end

\* the step leaves the rest of the list unread without an exception
Abandons ==
    /\ AtItem
    /\ sc_pc' # "scan"
    /\ ~CompareRaises(sc_inc, sc_last, CurKind)

\* once 3 stale pages in a row have been read, nothing of what is left is
\* written
AbandonsAfterStalePages ==
    (AtItem /\ sc_inc /\ sc_stale >= CONSECUTIVE_OLD_PAGES_THRESHOLD)
        => sc_saved' \subseteq sc_saved

\* nothing is abandoned before that
AbandonsOnlyAfterStalePages ==
    Abandons => (sc_inc /\ sc_stale >= CONSECUTIVE_OLD_PAGES_THRESHOLD)

\* a full scan reads every item
FullScanReadsAll == (AtItem /\ ~sc_inc) => sc_pc' = "scan"

\* C18: in an incremental per-status scan, once 3 consecutive stale 20-item
\* pages have been observed (and at least 2 pages scanned) every remaining
\* item is abandoned, none is written; no item is abandoned before 3
\* consecutive stale pages have been seen; a full scan never stops early.
C18_EarlyStop ==
    [][/\ AbandonsAfterStalePages
       /\ AbandonsOnlyAfterStalePages
       /\ FullScanReadsAll]_vars

-----------------------------------------------------------------------------
\* get_interests_page and get_interests (SpecPage, SpecFetch, FairFetch)

\* the call is over and the last request it made met a network error
GaveUpOnNetworkError ==
    /\ gp_pc \in {"returned", "raised"}
    /\ gp_last \in NetworkErrors

\* C19: when a page request in get_interests_page fails with a network or
\* connection error the request is re-issued, up to 3 attempts in total,
\* before the call gives up: a call that ends on such an error has made 3
\* requests in a row that met one.
C19_RetriesOnNetworkError ==
    GaveUpOnNetworkError => gp_neterr >= stop_max_attempt_number

\* get_interests has returned its results or raised
FetchOver == gi_pc \in {"done", "raised"}

\* C20: get_interests always terminates: for a finite remote list and any
\* sequence of responses (pages, empty bodies, HTTP errors including 429,
\* malformed JSON) the pagination loop comes to an end.
C20_Terminates == <>FetchOver

-----------------------------------------------------------------------------
\* save_interest and its lease under lock contention (SpecLock)

\* the call is over and its write met "database is locked"
WriteMetLock == lk_pc = "returned" /\ lk_where = "write" /\ lk_err = "locked"

\* C21: when a write inside save_interest fails because the store reports
\* "database is locked", save_interest retries the operation, up to 5
\* attempts: a call that ends on a locked write has issued the write 5
\* times.
C21_SaveRetriesOnLock == WriteMetLock => lk_writes >= save_interest_attempts

\* C22: a single connection acquisition makes at most 5 connection-creation
\* attempts when every attempt reports "database is locked" and then
\* propagates the error; any other error propagates on its first
\* occurrence, without a retry.
C22_AtMostFiveCreations ==
    /\ lk_creates <= create_attempts
    /\ lk_err = "other" => lk_pc = "returned"

\* the batch the loop would go through were the sync to run
WouldProcess == Capped(im_found, im_max)

\* C23: an image sync the user asks for explicitly, by POST /sync/images or
\* by the --sync-images flag, is forced: once it is over, a downloadable
\* item of its batch has been downloaded whatever download_covers says.
C23_ExplicitSyncIsForced ==
    (/\ im_trigger \in {"post", "flag"}
     /\ im_pc = "done"
     /\ \E j \in DOMAIN WouldProcess : WouldProcess[j] = "ok")
    => (im_force /\ im_fetched # {})

\* the items of kind k among the first n of the batch
CountKind(K, n) == Cardinality({j \in 1..n : im_items[j] \in K})

\* C24: the batch goes through every item up to the cap and never stops at
\* a failed one: success plus failed is the number of items gone through,
\* which at the end is the whole capped batch; an item with a missing
\* field or a failed download is a failure; and local_path is written only
\* for an item whose download succeeded.
C24_EveryItemCounted ==
    /\ im_success + im_failed = im_i
    /\ im_i <= Len(im_items)
    /\ (im_pc = "done" /\ Enabled(im_download_covers, im_force))
       => /\ im_i = Len(WouldProcess)
          /\ im_max # 0 => im_i <= im_max
    /\ im_failed >= CountKind({"missing", "no_image", "raises"}, im_i)
    /\ im_success = Cardinality(im_written)
    /\ im_written \subseteq im_fetched
    /\ \A j \in im_written : im_items[j] = "ok"

\* a capped batch is over in which a failed item came before a written one
C24_Witness ==
    /\ im_pc = "done"
    /\ Len(im_found) > Len(im_items)
    /\ \E j \in im_written : \E k \in 1..(j - 1) : im_items[k] # "ok"

\* the series handed out names its periods in time order, oldest first
OldestFirst ==
    \A i \in 1..(Len(tr_out.original_labels) - 1) :
        Earlier(tr_out.original_labels[i], tr_out.original_labels[i + 1])

\* every value of the series stands with its own period
PairedWithPeriod ==
    /\ Len(tr_out.values) = Len(tr_out.original_labels)
    /\ Len(tr_out.labels) = Len(tr_out.original_labels)
    /\ \A i \in 1..Len(tr_out.values) :
          tr_out.values[i] = CountOf(tr_data, tr_out.original_labels[i])

\* C25: the collection trend handed out, the analyzer's gap-filled series
\* after format_collection_trend, lists its periods oldest first and newest
\* last, each value with its period.
C25_TrendOldestFirst ==
    tr_pc = "formatted" => (OldestFirst /\ PairedWithPeriod)

\* thread r ends a run in which sync_data_by_type was called, and only in
\* full mode
EndsFullRun(r) == EndsRun(r) /\ modes[r] = {FALSE}

\* C26: last_full_sync changes only with the step that ends a run which
\* called sync_data_by_type in full mode; a run that did no per-type sync,
\* or only incremental ones, leaves it as it was.
C26_FullSyncTimeOnlyAfterFullRun ==
    [][last_full_sync' # last_full_sync => \E r \in Runners : EndsFullRun(r)]_vars

\* the last answer was asked for with skip_cache and is a dashboard
FreshAnswer == ds_resp.from # "none" /\ ds_resp.skip /\ ~ds_resp.error

\* C27: get_dashboard with skip_cache true returns statistics computed from
\* what the database holds when it is called: no value cached before, in the
\* dashboard cache or in the analyzer's cache, is served.
C27_SkipCacheIsFresh ==
    FreshAnswer => (ds_resp.from = "computed" /\ ds_resp.value = ds_resp.db)

\* C28: the dashboard cache holds only dashboards that were computed; an
\* error payload is never stored in it.
C28_NoErrorCached == \A e \in ds_dash : ~e.error

\* the files whose `interests` hold row i
FilesWith(i) == {f \in ex_files : i \in f.interests}

\* index.json is there only once every export thread has finished
IndexAfterThreads ==
    ex_index # {} => (ex_started = ExportTasks(ex_rows) /\ ex_done = ex_started)

\* C29: once export_all_types has returned, every stored row of a known
\* type is in exactly one of the files produced, the rows of status mark
\* (shown as wish) among them; and index.json is written only after every
\* export thread has finished.
C29_EveryRowExportedOnce ==
    /\ ex_main = "returned"
          => \A i \in DOMAIN ex_rows :
                ex_rows[i].type \in SupportedTypes(ex_rows)
                    => Cardinality(FilesWith(i)) = 1
    /\ IndexAfterThreads

\* C30: an operation of the statistics data provider that leased a
\* connection has handed it back exactly once when it returns, on every
\* path, a failing statement of fix_invalid_genres, fix_null_card_subtitles
\* or fix_invalid_date included; no connection is left out of the pool's
\* reach.
C30_ConnectionHandedBack ==
    /\ (pv_pc = "over" /\ pv_leased) => pv_handed = 1
    /\ pv_lost = 0
=============================================================================
